---- MODULE Spec2Model ----
(***************************************************************************)
(* Model of the signal computation and aggregation core of the crypto      *)
(* futures analyzer (src/src/analysis/*.py).                               *)
(*                                                                         *)
(* The core is a library of pure functions.  The state is one call: which  *)
(* function is called (fn), the arguments it is given (args), whether it   *)
(* has returned (pc), the value it returned (ret) and the values of its    *)
(* local variables at the return statement (locals).                       *)
(*                                                                         *)
(* Numbers.  Python floats are modelled as exact decimals in fixed point:  *)
(*   - a score on the 0-10 scale with one decimal is an integer number of  *)
(*     tenths (7.5 is 75);                                                 *)
(*   - a weighted sum inside aggregate_signals is an integer number of     *)
(*     thousandths (weight in percent times score in tenths);              *)
(*   - the two scores inside calculate_bias are numerators over the common *)
(*     denominator BiasDen(args);                                          *)
(*   - funding rates are in units of 0.01 percent, liquidations in USD.    *)
(* round(x, 1) is Python's round-half-to-even on the exact value.  The     *)
(* representation error of binary floating point is not modelled.          *)
(***************************************************************************)
EXTENDS Integers, Sequences, FiniteSets, TLC

VARIABLES pc, fn, args, ret, locals

vars == <<pc, fn, args, ret, locals>>

(***************************************************************************)
(* Bounds of the input grids.                                              *)
(***************************************************************************)
\* lens scores handed to aggregate_signals: ScoreGridN + 1 points of [0, 10]
ScoreGridN == 14
\* RSI readings: RsiGridN + 1 points of [0, 100]
RsiGridN == 20
\* price-vs-EMA readings, whole percent in -PveMax..PveMax
PveMax == 7
\* funding rates, units of 0.01 percent in -RateMax..RateMax
RateMax == 25
\* liquidation totals, USD in 0..LiqMax
LiqMax == 30
\* trade tapes of up to MaxTrades records
MaxTrades == 3
\* signal lists of up to MaxSignals signals
MaxSignals == 3
\* symbols in one run
NumSymbols == 2
\* price and volume windows of up to MaxBars bars
MaxBars == 3
\* operations called on one exchange manager
MaxCalls == 3

(***************************************************************************)
(* Arithmetic helpers.                                                     *)
(***************************************************************************)
Min(a, b) == IF a <= b THEN a ELSE b

Max(a, b) == IF a >= b THEN a ELSE b

Abs(a) == IF a < 0 THEN -a ELSE a

\* Python round(): the integer nearest to n/d (d > 0), ties to the even one.
RoundHalfEven(n, d) ==
    LET q == n \div d
        r == n % d
    IN  IF 2 * r > d THEN q + 1
        ELSE IF 2 * r < d THEN q
        ELSE IF q % 2 = 0 THEN q ELSE q + 1

(***************************************************************************)
(* technical.py : calculate_bias                                           *)
(*                                                                         *)
(* args: rsi_signal, current_rsi (0..100), macd_crossover,                 *)
(* current_histogram (only its sign is used: -1, 0, 1), ema_crossover,     *)
(* price_vs_ema (percent), volume_spike, rsi_oversold, rsi_overbought.     *)
(* A score s of the code is the numerator s * BiasDen(a).                  *)
(***************************************************************************)
\* common denominator of rsi_intensity (/ rsi_oversold, / (100 -
\* rsi_overbought)) and of price_vs_ema / 4
BiasDen(a) == 4 * a.rsi_oversold * (100 - a.rsi_overbought)

\* analyze_technicals, "RSI signal": the rsi_signal passed to calculate_bias
RsiSignal(rsi, oversold, overbought) ==
    IF rsi <= oversold THEN "oversold"
    ELSE IF rsi >= overbought THEN "overbought"
    ELSE "neutral"

\* "RSI contribution (max 3 points)" to the score of side d
RsiContribution(a, d) ==
    LET den == BiasDen(a)
    IN  IF a.rsi_signal = "oversold"
        THEN IF d = "long"
             THEN 2 * den
                  + Min((a.rsi_oversold - a.current_rsi) * 4 * (100 - a.rsi_overbought), den)
             ELSE 0
        ELSE IF a.rsi_signal = "overbought"
        THEN IF d = "short"
             THEN 2 * den
                  + Min((a.current_rsi - a.rsi_overbought) * 4 * a.rsi_oversold, den)
             ELSE 0
        ELSE 0

\* mutant: the histogram direction is ignored when there is no crossover
MacdContribution_NoHistogram(a, d) ==
    LET den == BiasDen(a)
    IN  IF a.macd_crossover = "bullish" THEN (IF d = "long" THEN (5 * den) \div 2 ELSE 0)
        ELSE IF a.macd_crossover = "bearish"
        THEN (IF d = "short" THEN (5 * den) \div 2 ELSE 0)
        ELSE 0

\* "MACD crossover contribution (max 2.5 points)" to the score of side d
MacdContribution(a, d) ==
    LET den == BiasDen(a)
    IN  IF a.macd_crossover = "bullish" THEN (IF d = "long" THEN (5 * den) \div 2 ELSE 0)
        ELSE IF a.macd_crossover = "bearish"
        THEN (IF d = "short" THEN (5 * den) \div 2 ELSE 0)
        ELSE IF a.current_histogram > 0 THEN (IF d = "long" THEN den \div 2 ELSE 0)
        ELSE IF a.current_histogram < 0 THEN (IF d = "short" THEN den \div 2 ELSE 0)
        ELSE 0

\* "EMA crossover contribution (max 2 points)" to the score of side d
EmaContribution(a, d) ==
    IF a.ema_crossover = "bullish" THEN (IF d = "long" THEN 2 * BiasDen(a) ELSE 0)
    ELSE IF a.ema_crossover = "bearish" THEN (IF d = "short" THEN 2 * BiasDen(a) ELSE 0)
    ELSE 0

\* "Price position vs EMA (max 1.5 points)" to the score of side d
PriceContribution(a, d) ==
    LET den == BiasDen(a)
    IN  IF a.price_vs_ema > 2
        THEN IF d = "long" THEN Min((a.price_vs_ema * den) \div 4, (3 * den) \div 2) ELSE 0
        ELSE IF a.price_vs_ema < -2
        THEN IF d = "short"
             THEN Min((Abs(a.price_vs_ema) * den) \div 4, (3 * den) \div 2)
             ELSE 0
        ELSE 0

\* long_score / short_score before the volume spike bonus
ScoreBeforeVolume(a, d) ==
    RsiContribution(a, d) + MacdContribution(a, d) + EmaContribution(a, d)
    + PriceContribution(a, d)

\* mutant: on a tie the bonus goes to the long side
VolumeBonus_TieToLong(a, long_score, short_score) ==
    IF a.volume_spike
    THEN IF long_score >= short_score
         THEN [long_score |-> long_score + BiasDen(a), short_score |-> short_score]
         ELSE [long_score |-> long_score, short_score |-> short_score + BiasDen(a)]
    ELSE [long_score |-> long_score, short_score |-> short_score]

\* "Volume spike bonus (1 point)": the two scores after it
VolumeBonus(a, long_score, short_score) ==
    IF a.volume_spike
    THEN IF long_score > short_score
         THEN [long_score |-> long_score + BiasDen(a), short_score |-> short_score]
         ELSE IF short_score > long_score
         THEN [long_score |-> long_score, short_score |-> short_score + BiasDen(a)]
         ELSE [long_score |-> long_score, short_score |-> short_score]
    ELSE [long_score |-> long_score, short_score |-> short_score]

\* mutant: the larger score wins without the margin of 1
BiasDecision_NoMargin(long_score, short_score, den) ==
    IF long_score > short_score
    THEN [bias |-> "long", strength |-> Min(long_score, 10 * den)]
    ELSE IF short_score > long_score
    THEN [bias |-> "short", strength |-> Min(short_score, 10 * den)]
    ELSE [bias |-> "neutral", strength |-> 0]

\* mutant: a neutral bias keeps total_score = max(long_score, short_score)
BiasDecision_NeutralKeepsScore(long_score, short_score, den) ==
    IF long_score > short_score + den
    THEN [bias |-> "long", strength |-> Min(long_score, 10 * den)]
    ELSE IF short_score > long_score + den
    THEN [bias |-> "short", strength |-> Min(short_score, 10 * den)]
    ELSE [bias |-> "neutral", strength |-> Min(Max(long_score, short_score), 10 * den)]

\* "Determine bias": bias and the unrounded strength (numerator over den)
BiasDecision(long_score, short_score, den) ==
    IF long_score > short_score + den
    THEN [bias |-> "long", strength |-> Min(long_score, 10 * den)]
    ELSE IF short_score > long_score + den
    THEN [bias |-> "short", strength |-> Min(short_score, 10 * den)]
    ELSE [bias |-> "neutral", strength |-> 0]

\* the local variables of calculate_bias: the scores before the volume bonus
\* and at the return statement
BiasLocals(a) ==
    LET pre_long == ScoreBeforeVolume(a, "long")
        pre_short == ScoreBeforeVolume(a, "short")
        after == VolumeBonus(a, pre_long, pre_short)
    IN  [den |-> BiasDen(a), pre_long |-> pre_long, pre_short |-> pre_short,
         long_score |-> after.long_score, short_score |-> after.short_score]

\* the (bias, strength) returned, strength in tenths
calculate_bias(a) ==
    LET l == BiasLocals(a)
        b == BiasDecision(l.long_score, l.short_score, l.den)
    IN  [bias |-> b.bias, strength |-> RoundHalfEven(10 * b.strength, l.den)]

RsiGrid == {(k * 100) \div RsiGridN : k \in 0..RsiGridN}

\* (rsi_oversold, rsi_overbought): the defaults and a wider band
RsiThresholds == {<<30, 70>>, <<20, 80>>}

Crossovers == {"bullish", "bearish", "none"}

\* the argument lists analyze_technicals calls calculate_bias with
BiasInputs ==
    {[rsi_signal |-> RsiSignal(r, th[1], th[2]), current_rsi |-> r,
      macd_crossover |-> m, current_histogram |-> h, ema_crossover |-> e,
      price_vs_ema |-> p, volume_spike |-> v,
      rsi_oversold |-> th[1], rsi_overbought |-> th[2]] :
        r \in RsiGrid, th \in RsiThresholds, m \in Crossovers, h \in {-1, 0, 1},
        e \in Crossovers, p \in -PveMax..PveMax, v \in BOOLEAN}

CalculateBias ==
    /\ pc = "call"
    /\ fn = "calculate_bias"
    /\ ret' = calculate_bias(args)
    /\ locals' = BiasLocals(args)
    /\ pc' = "done"
    /\ UNCHANGED <<fn, args>>

(***************************************************************************)
(* funding.py : analyze_funding_rate                                       *)
(*                                                                         *)
(* args: funding_rate and the four thresholds, units of 0.01 percent.      *)
(***************************************************************************)
\* n/d rounded to an integer, for a divisor of either sign
RoundRatio(n, d) == IF d > 0 THEN RoundHalfEven(n, d) ELSE RoundHalfEven(-n, -d)

\* min(n/d, c) * d for a divisor of either sign: the numerator of the minimum
MinRatio(n, d, c) == IF d > 0 THEN Min(n, c * d) ELSE Max(n, c * d)

\* mutant: the cap at 10 is forgotten
ExtremeScore_NoCap(num, ext) == RoundRatio(num * 50, ext)

\* round(min(num / ext * 5, 10), 1) in tenths
ExtremeScore(num, ext) == RoundRatio(MinRatio(num * 50, ext, 100), ext)

\* mutant: the high rule scores with the factor 5 of the extreme rule
HighScore_FactorFive(num, ext) == RoundRatio(MinRatio(num * 50, ext, 70), ext)

\* round(min(num / ext * 4, 7), 1) in tenths
HighScore(num, ext) == RoundRatio(MinRatio(num * 40, ext, 70), ext)

\* the literal 0.01 of the moderate rules
ModerateRate == 1

\* the fixed score of the moderate rules, tenths
ModerateScore == 20

\* mutant: the two moderate rules are missing
analyze_funding_rate_NoModerate(a) ==
    LET rate == a.funding_rate
    IN  IF rate <= a.extreme_negative
        THEN [signal |-> "long", intensity |-> "extreme",
              score |-> ExtremeScore(Abs(rate), Abs(a.extreme_negative))]
        ELSE IF rate <= a.high_negative
        THEN [signal |-> "long", intensity |-> "high",
              score |-> HighScore(Abs(rate), Abs(a.extreme_negative))]
        ELSE IF rate >= a.extreme_positive
        THEN [signal |-> "short", intensity |-> "extreme",
              score |-> ExtremeScore(rate, a.extreme_positive)]
        ELSE IF rate >= a.high_positive
        THEN [signal |-> "short", intensity |-> "high",
              score |-> HighScore(rate, a.extreme_positive)]
        ELSE [signal |-> "neutral", intensity |-> "low", score |-> 0]

\* the FundingSignal returned: signal, intensity, score in tenths
analyze_funding_rate(a) ==
    LET rate == a.funding_rate
    IN  IF rate <= a.extreme_negative
        THEN [signal |-> "long", intensity |-> "extreme",
              score |-> ExtremeScore(Abs(rate), Abs(a.extreme_negative))]
        ELSE IF rate <= a.high_negative
        THEN [signal |-> "long", intensity |-> "high",
              score |-> HighScore(Abs(rate), Abs(a.extreme_negative))]
        ELSE IF rate >= a.extreme_positive
        THEN [signal |-> "short", intensity |-> "extreme",
              score |-> ExtremeScore(rate, a.extreme_positive)]
        ELSE IF rate >= a.high_positive
        THEN [signal |-> "short", intensity |-> "high",
              score |-> HighScore(rate, a.extreme_positive)]
        ELSE IF rate > ModerateRate
        THEN [signal |-> "short", intensity |-> "moderate", score |-> ModerateScore]
        ELSE IF rate < -ModerateRate
        THEN [signal |-> "long", intensity |-> "moderate", score |-> ModerateScore]
        ELSE [signal |-> "neutral", intensity |-> "low", score |-> 0]

\* default thresholds of analyze_funding_rate
DefaultExtremePositive == 10
DefaultExtremeNegative == -10
DefaultHighPositive == 5
DefaultHighNegative == -5

\* the extreme thresholds come from the configuration (the defaults and a
\* narrower pair), the high ones are always the defaults
FundingInputs ==
    {[funding_rate |-> r, extreme_positive |-> ep, extreme_negative |-> en,
      high_positive |-> DefaultHighPositive, high_negative |-> DefaultHighNegative] :
        r \in -RateMax..RateMax, ep \in {DefaultExtremePositive, 4},
        en \in {DefaultExtremeNegative, -4}}

AnalyzeFundingRate ==
    /\ pc = "call"
    /\ fn = "analyze_funding_rate"
    /\ ret' = analyze_funding_rate(args)
    /\ locals' = [rate |-> args.funding_rate]
    /\ pc' = "done"
    /\ UNCHANGED <<fn, args>>

(***************************************************************************)
(* liquidation.py : analyze_liquidations                                   *)
(*                                                                         *)
(* args: long_liquidations_usd, short_liquidations_usd, threshold_usd.     *)
(***************************************************************************)
\* greatest common divisor of two naturals, not both 0
RECURSIVE Gcd(_, _)
Gcd(a, b) == IF b = 0 THEN a ELSE Gcd(b, a % b)

\* mutant: the imbalance is the plain ratio, the "- 1" is forgotten
LiquidationScore_PlainRatio(own, other, threshold) ==
    LET ms == Max(other, 1)
        g1 == Gcd(own, threshold)
        g2 == Gcd(own, ms)
        den == (threshold \div g1) * (ms \div g2)
        magnitude == Min((own \div g1) * (ms \div g2), 5 * den)
        imbalance == Min((own \div g2) * (threshold \div g1), 5 * den)
    IN  RoundHalfEven(10 * Min(magnitude + imbalance, 10 * den), den)

\* round(min(magnitude_score + imbalance_score, 10), 1) in tenths, for the
\* dominant total own (> 0) and the other total other.  The two ratios
\* own / threshold and own / max(other, 1) are reduced to lowest terms, so
\* that totals in the millions stay within the integers of the checker.
LiquidationScore(own, other, threshold) ==
    LET ms == Max(other, 1)
        g1 == Gcd(own, threshold)
        g2 == Gcd(own, ms)
        den == (threshold \div g1) * (ms \div g2)
        magnitude == Min((own \div g1) * (ms \div g2), 5 * den)
        imbalance == Min(((own \div g2) - (ms \div g2)) * (threshold \div g1), 5 * den)
    IN  RoundHalfEven(10 * Min(magnitude + imbalance, 10 * den), den)

\* the LiquidationSignal returned: signal, score in tenths, and which
\* description was chosen
analyze_liquidations(a) ==
    LET long == a.long_liquidations_usd
        short == a.short_liquidations_usd
        total == long + short
    IN  IF 2 * total < a.threshold_usd
        THEN [signal |-> "neutral", score |-> 0, description |-> "low_activity"]
        ELSE IF long >= a.threshold_usd /\ 2 * long > 3 * short
        THEN [signal |-> "long", score |-> LiquidationScore(long, short, a.threshold_usd),
              description |-> "large_long"]
        ELSE IF short >= a.threshold_usd /\ 2 * short > 3 * long
        THEN [signal |-> "short", score |-> LiquidationScore(short, long, a.threshold_usd),
              description |-> "large_short"]
        ELSE IF total >= a.threshold_usd
        THEN [signal |-> "neutral", score |-> 0, description |-> "balanced"]
        ELSE [signal |-> "neutral", score |-> 0, description |-> "none"]

\* default threshold_usd
DefaultThresholdUsd == 1000000

\* every pair of small totals against two small thresholds, and totals in
\* the hundreds of thousands against the default threshold
LiquidationInputs ==
    {[long_liquidations_usd |-> l, short_liquidations_usd |-> s, threshold_usd |-> t] :
        l \in 0..LiqMax, s \in 0..LiqMax, t \in {10, 15}}
    \cup {[long_liquidations_usd |-> l * 100000, short_liquidations_usd |-> s * 100000,
           threshold_usd |-> DefaultThresholdUsd] :
              l \in {0, 2, 9, 20}, s \in {0, 1, 2, 9, 20}}

AnalyzeLiquidations ==
    /\ pc = "call"
    /\ fn = "analyze_liquidations"
    /\ ret' = analyze_liquidations(args)
    /\ locals' = [net_liquidations |-> args.long_liquidations_usd - args.short_liquidations_usd,
                  total_liquidations |-> args.long_liquidations_usd + args.short_liquidations_usd]
    /\ pc' = "done"
    /\ UNCHANGED <<fn, args>>

(***************************************************************************)
(* liquidation.py : estimate_liquidations_from_trades                      *)
(*                                                                         *)
(* args: trades, a list of records with price, quote_qty, time and         *)
(* is_buyer_maker, and price_threshold_percent in tenths of a percent.     *)
(***************************************************************************)
\* xs with the record t inserted behind every record whose time is <= t.time
RECURSIVE InsertByTime(_, _)
InsertByTime(xs, t) ==
    IF xs = <<>> THEN <<t>>
    ELSE IF xs[Len(xs)].time <= t.time THEN Append(xs, t)
    ELSE Append(InsertByTime(SubSeq(xs, 1, Len(xs) - 1), t), xs[Len(xs)])

\* mutant: the tape is used in the order supplied
RECURSIVE SortByTime_NoSort(_)
SortByTime_NoSort(trades) == trades

\* sorted(trades, key=lambda x: x['time']): ascending and stable
RECURSIVE SortByTime(_)
SortByTime(trades) ==
    IF trades = <<>> THEN <<>>
    ELSE InsertByTime(SortByTime(SubSeq(trades, 1, Len(trades) - 1)), trades[Len(trades)])

\* mutant: a move of exactly the threshold counts
TradeSide_NonStrict(prev, trade, threshold) ==
    IF prev.price > 0
    THEN IF (trade.price - prev.price) * 1000 <= -threshold * prev.price
            /\ trade.is_buyer_maker
         THEN "long"
         ELSE IF (trade.price - prev.price) * 1000 >= threshold * prev.price
                 /\ ~trade.is_buyer_maker
         THEN "short"
         ELSE "none"
    ELSE "none"

\* the body of the loop: the estimate the trade is added to.  price_change =
\* (price - prev) / prev * 100 is compared with the threshold (tenths of a
\* percent) multiplied out.
TradeSide(prev, trade, threshold) ==
    IF prev.price > 0
    THEN IF (trade.price - prev.price) * 1000 < -threshold * prev.price
            /\ trade.is_buyer_maker
         THEN "long"
         ELSE IF (trade.price - prev.price) * 1000 > threshold * prev.price
                 /\ ~trade.is_buyer_maker
         THEN "short"
         ELSE "none"
    ELSE "none"

\* long_liqs / short_liqs (side) after the loop over sorted_trades[1:]
RECURSIVE SideTotal(_, _, _)
SideTotal(sorted, threshold, side) ==
    IF Len(sorted) <= 1 THEN 0
    ELSE LET n == Len(sorted)
         IN  SideTotal(SubSeq(sorted, 1, n - 1), threshold, side)
             + (IF TradeSide(sorted[n - 1], sorted[n], threshold) = side
                THEN sorted[n].quote_qty ELSE 0)

\* the (long, short) estimate returned
estimate_liquidations_from_trades(a) ==
    IF a.trades = <<>> THEN [long_liqs |-> 0, short_liqs |-> 0]
    ELSE LET sorted == SortByTime(a.trades)
         IN  [long_liqs |-> SideTotal(sorted, a.price_threshold_percent, "long"),
              short_liqs |-> SideTotal(sorted, a.price_threshold_percent, "short")]

\* default price_threshold_percent, tenths of a percent
DefaultPriceThreshold == 5

\* a trade without its notional: prices around 200 (a step of 1 is exactly
\* 0.5 percent, a step of 2 is 1 percent) and the price 0, three timestamps
TradeShapes ==
    [price : {0, 200, 201, 202}, time : {1, 2, 3}, is_buyer_maker : BOOLEAN]

\* the i-th record supplied has the notional 2^(i-1), so that a total tells
\* which records were counted
WithNotional(shapes) ==
    [i \in 1..Len(shapes) |->
        [price |-> shapes[i].price, quote_qty |-> 2 ^ (i - 1), time |-> shapes[i].time,
         is_buyer_maker |-> shapes[i].is_buyer_maker]]

EstimateInputs ==
    {[trades |-> WithNotional(shapes), price_threshold_percent |-> DefaultPriceThreshold] :
        shapes \in UNION {[1..n -> TradeShapes] : n \in 0..MaxTrades}}

EstimateLiquidations ==
    /\ pc = "call"
    /\ fn = "estimate_liquidations_from_trades"
    /\ ret' = estimate_liquidations_from_trades(args)
    /\ locals' = [sorted_trades |-> SortByTime(args.trades)]
    /\ pc' = "done"
    /\ UNCHANGED <<fn, args>>

(***************************************************************************)
(* signals.py : aggregate_signals                                          *)
(***************************************************************************)
\* Optional[...Signal] = None
NoneLens == [present |-> FALSE, dir |-> "none", score |-> 0]

\* a TechnicalSignal / FundingSignal / LiquidationSignal, reduced to the
\* fields aggregate_signals decides on: bias/signal and strength/score
Lens(d, s) == [present |-> TRUE, dir |-> d, score |-> s]

\* default weights, percent
WeightTechnical == 50
WeightFunding == 30
WeightLiquidation == 20

DefaultWeights ==
    [technical |-> WeightTechnical, funding |-> WeightFunding,
     liquidation |-> WeightLiquidation]

\* mutant: the bias/signal test is dropped, a present lens is always processed
LensActive_NeutralCounts(l) == l.present

\* "if technical and technical.bias != 'neutral'"
LensActive(l) == l.present /\ l.dir # "neutral"

\* technical.strength * weights['technical'], thousandths; 0.0 when skipped
Contribution(l, w) == IF LensActive(l) THEN l.score * w ELSE 0

\* the part of a lens's contribution that is added to the sum of direction d
DirContribution(l, w, d) ==
    IF LensActive(l) /\ l.dir = d THEN Contribution(l, w) ELSE 0

\* long_score / short_score after the three lenses were processed
DirScore(a, d) ==
    DirContribution(a.technical, a.weights.technical, d)
    + DirContribution(a.funding, a.weights.funding, d)
    + DirContribution(a.liquidation, a.weights.liquidation, d)

Agrees(l, d) == IF LensActive(l) /\ l.dir = d THEN 1 ELSE 0

\* signals_agreeing_long / signals_agreeing_short
SignalsAgreeing(a, d) ==
    Agrees(a.technical, d) + Agrees(a.funding, d) + Agrees(a.liquidation, d)

\* the reason strings of the lenses, in evaluation order
LensReason(l, name) ==
    IF LensActive(l) /\ l.dir \in {"long", "short"} THEN <<name>> ELSE <<>>

LensReasons(a) ==
    LensReason(a.technical, "technical") \o LensReason(a.funding, "funding")
    \o LensReason(a.liquidation, "liquidation")

\* mutant: a tie goes to long
SignalDirection_TieLong(long_score, short_score) ==
    IF long_score >= short_score THEN "long"
    ELSE IF short_score > long_score THEN "short"
    ELSE "neutral"

\* "Determine final signal direction"
SignalDirection(long_score, short_score) ==
    IF long_score > short_score THEN "long"
    ELSE IF short_score > long_score THEN "short"
    ELSE "neutral"

\* mutant: the losing sum is taken off the winning one
BaseScore_NetOfDissent(a, d) ==
    IF d = "neutral" THEN 0
    ELSE DirScore(a, d) - DirScore(a, IF d = "long" THEN "short" ELSE "long")

BaseScore(a, d) == IF d = "neutral" THEN 0 ELSE DirScore(a, d)

\* mutant: every directional lens counts, the dissenting ones too
ConfluenceCount_AllLenses(a, d) ==
    IF d = "neutral" THEN 0
    ELSE SignalsAgreeing(a, "long") + SignalsAgreeing(a, "short")

ConfluenceCount(a, d) == IF d = "neutral" THEN 0 ELSE SignalsAgreeing(a, d)

BonusAll == 1500
BonusTwo == 750

\* mutant: two agreeing lenses earn 3.0, three earn 3.0
ConfluenceBonus_Generous(count) ==
    IF count >= 3 THEN 2 * BonusAll ELSE IF count = 2 THEN 4 * BonusTwo ELSE 0

\* "Apply confluence bonus", thousandths
ConfluenceBonus(count) ==
    IF count >= 3 THEN BonusAll ELSE IF count = 2 THEN BonusTwo ELSE 0

ConfluenceReason(count) ==
    IF count >= 3 THEN <<"all_3_agree">>
    ELSE IF count = 2 THEN <<"2_agree">> ELSE <<>>

ScoreCap == 10000

\* mutant: the cap is forgotten
TotalScore_NoCap(base_score, bonus) == base_score + bonus

\* "Calculate final score (capped at 10)", thousandths
TotalScore(base_score, bonus) == Min(base_score + bonus, ScoreCap)

VeryStrongMin == 8500
StrongMin == 7000
ModerateMin == 5000

\* calculate_signal_strength, score in thousandths
calculate_signal_strength(score) ==
    IF score >= VeryStrongMin THEN "very_strong"
    ELSE IF score >= StrongMin THEN "strong"
    ELSE IF score >= ModerateMin THEN "moderate"
    ELSE "weak"

\* round(x, 1) of a value in thousandths, in tenths
Round1(x) == RoundHalfEven(x, 100)

\* the local variables of aggregate_signals at its return statement
AggregateLocals(a) ==
    LET long_score == DirScore(a, "long")
        short_score == DirScore(a, "short")
        d == SignalDirection(long_score, short_score)
        base == BaseScore(a, d)
        count == ConfluenceCount(a, d)
    IN  [long_score |-> long_score, short_score |-> short_score,
         signals_agreeing_long |-> SignalsAgreeing(a, "long"),
         signals_agreeing_short |-> SignalsAgreeing(a, "short"),
         base_score |-> base,
         total_score |-> TotalScore(base, ConfluenceBonus(count))]

\* the AggregatedSignal returned (timestamp, symbol and timeframe left out)
aggregate_signals(a) ==
    LET long_score == DirScore(a, "long")
        short_score == DirScore(a, "short")
        d == SignalDirection(long_score, short_score)
        base == BaseScore(a, d)
        count == ConfluenceCount(a, d)
        bonus == ConfluenceBonus(count)
        total == TotalScore(base, bonus)
    IN  [signal_type |-> d,
         strength |-> calculate_signal_strength(total),
         total_score |-> Round1(total),
         technical_signal |-> a.technical,
         funding_signal |-> a.funding,
         liquidation_signal |-> a.liquidation,
         technical_score |-> Round1(Contribution(a.technical, a.weights.technical)),
         funding_score |-> Round1(Contribution(a.funding, a.weights.funding)),
         liquidation_score |->
             Round1(Contribution(a.liquidation, a.weights.liquidation)),
         confluence_count |-> count,
         confluence_bonus |-> bonus,
         reasons |-> LensReasons(a) \o ConfluenceReason(count)]

\* the score grid: ScoreGridN + 1 points of 0..100 tenths
ScoreGrid == {(k * 100) \div ScoreGridN : k \in 0..ScoreGridN}

\* the lenses a caller can pass: absent, neutral (the classifiers give a
\* neutral signal score 0, the dataclass allows any), or directional with a
\* score of the grid
LensInputs ==
    {NoneLens, Lens("neutral", 0), Lens("neutral", 100)}
    \cup {Lens(d, s) : d \in {"long", "short"}, s \in ScoreGrid}

\* the argument lists aggregate_signals is called with (weights=None)
AggregateInputs ==
    {[technical |-> t, funding |-> f, liquidation |-> l, weights |-> DefaultWeights] :
        t \in LensInputs, f \in LensInputs, l \in LensInputs}

AggregateSignals ==
    /\ pc = "call"
    /\ fn = "aggregate_signals"
    /\ ret' = aggregate_signals(args)
    /\ locals' = AggregateLocals(args)
    /\ pc' = "done"
    /\ UNCHANGED <<fn, args>>

(***************************************************************************)
(* signals.py : aggregate_signals called twice on the same signal objects. *)
(*                                                                         *)
(* args: the argument values of the first call.  locals: the three signal  *)
(* objects as they are now, the clock datetime.now() reads, and the        *)
(* AggregatedSignal of the first call.  pc: "first", "again", "done".      *)
(***************************************************************************)
\* mutant: a processed lens is consumed, its score is set to 0
InputsAfter_Consumed(objects) ==
    [n \in DOMAIN objects |->
        IF LensActive(objects[n]) THEN Lens(objects[n].dir, 0) ELSE objects[n]]

\* the signal objects after a call: the body assigns to none of their fields
InputsAfter(objects) == objects

\* the AggregatedSignal built from the objects: it refers to the component
\* signals themselves and takes its timestamp from the clock
AggregatedAt(objects, weights, now) ==
    LET after == InputsAfter(objects)
        r == aggregate_signals([technical |-> objects.technical, funding |-> objects.funding,
                                liquidation |-> objects.liquidation, weights |-> weights])
    IN  [timestamp |-> now]
        @@ [r EXCEPT !.technical_signal = after.technical,
                     !.funding_signal = after.funding,
                     !.liquidation_signal = after.liquidation]

\* the state before the first call
RepeatStart(a) ==
    [objects |-> [technical |-> a.technical, funding |-> a.funding,
                  liquidation |-> a.liquidation],
     clock |-> 0,
     first |-> [none |-> TRUE]]

\* the first call; the clock may advance before the next one
AggregateFirst ==
    /\ pc = "first"
    /\ fn = "aggregate_signals"
    /\ \E tick \in {0, 1} :
           locals' = [objects |-> InputsAfter(locals.objects),
                      clock |-> locals.clock + tick,
                      first |-> AggregatedAt(locals.objects, args.weights, locals.clock)]
    /\ pc' = "again"
    /\ UNCHANGED <<fn, args, ret>>

\* the second call, on the same objects
AggregateAgain ==
    /\ pc = "again"
    /\ fn = "aggregate_signals"
    /\ ret' = AggregatedAt(locals.objects, args.weights, locals.clock)
    /\ locals' = [locals EXCEPT !.objects = InputsAfter(locals.objects)]
    /\ pc' = "done"
    /\ UNCHANGED <<fn, args>>

(***************************************************************************)
(* signals.py : filter_signals, rank_signals                               *)
(*                                                                         *)
(* A signal is a record with symbol, signal_type and total_score (tenths). *)
(* signal_types is [none |-> TRUE, ...] for None and carries the list      *)
(* otherwise.                                                              *)
(***************************************************************************)
\* xs with s inserted behind every signal whose score is >= s.total_score
RECURSIVE InsertByScore(_, _)
InsertByScore(xs, s) ==
    IF xs = <<>> THEN <<s>>
    ELSE IF xs[Len(xs)].total_score >= s.total_score THEN Append(xs, s)
    ELSE Append(InsertByScore(SubSeq(xs, 1, Len(xs) - 1), s), xs[Len(xs)])

\* sorted(xs, key=lambda x: x.total_score, reverse=True): descending, stable
RECURSIVE SortByScore(_)
SortByScore(xs) ==
    IF xs = <<>> THEN <<>>
    ELSE InsertByScore(SortByScore(SubSeq(xs, 1, Len(xs) - 1)), xs[Len(xs)])

\* the truth value of signal_types in a condition: None and [] are false
Truthy(signal_types) == ~signal_types.none /\ signal_types.types # <<>>

\* mutant: a score equal to min_score is dropped
KeepSignal_StrictMin(signal, min_score, signal_types) ==
    /\ signal.signal_type # "neutral"
    /\ signal.total_score > min_score
    /\ ~(Truthy(signal_types)
         /\ \A i \in 1..Len(signal_types.types) : signal_types.types[i] # signal.signal_type)

\* the three tests of the loop body: TRUE when the signal is appended
KeepSignal(signal, min_score, signal_types) ==
    /\ signal.signal_type # "neutral"
    /\ ~(signal.total_score < min_score)
    /\ ~(Truthy(signal_types)
         /\ \A i \in 1..Len(signal_types.types) : signal_types.types[i] # signal.signal_type)

\* mutant: nothing is dropped
filter_signals_KeepAll(a) == SortByScore(a.signals)

\* the loop appends the signals that pass, in input order; the result is sorted
filter_signals(a) ==
    LET keep(s) == KeepSignal(s, a.min_score, a.signal_types)
    IN  SortByScore(SelectSeq(a.signals, keep))

\* mutant: the lists are not truncated
Take_NoLimit(xs, n) == xs

\* xs[:n] for n >= 0
Take(xs, n) == SubSeq(xs, 1, Min(n, Len(xs)))

\* the LONG and the SHORT signals, each sorted and cut to top_n
rank_signals(a) ==
    LET isLong(s) == s.signal_type = "long"
        isShort(s) == s.signal_type = "short"
    IN  [long |-> Take(SortByScore(SelectSeq(a.signals, isLong)), a.top_n),
         short |-> Take(SortByScore(SelectSeq(a.signals, isShort)), a.top_n)]

\* default min_score of filter_signals and MIN_SIGNAL_SCORE, tenths
DefaultMinScore == 70

\* signal lists: the i-th signal carries the symbol i; scores at, one tenth
\* below and above the default minimum
SignalLists ==
    UNION {{[i \in 1..n |-> [symbol |-> i, signal_type |-> shape[i].signal_type,
                             total_score |-> shape[i].total_score]] :
               shape \in [1..n -> [signal_type : {"long", "short", "neutral"},
                                   total_score : {DefaultMinScore - 1, DefaultMinScore, 80}]]} :
           n \in 0..MaxSignals}

NoTypes == [none |-> TRUE, types |-> <<>>]

TypeLists ==
    {NoTypes} \cup {[none |-> FALSE, types |-> t] :
                       t \in {<<>>, <<"long">>, <<"short">>, <<"long", "short">>}}

FilterInputs ==
    [signals : SignalLists, min_score : {DefaultMinScore, 80}, signal_types : TypeLists]

RankInputs == [signals : SignalLists, top_n : 0..MaxSignals]

FilterSignals ==
    /\ pc = "call"
    /\ fn = "filter_signals"
    /\ ret' = filter_signals(args)
    /\ locals' = [none |-> TRUE]
    /\ pc' = "done"
    /\ UNCHANGED <<fn, args>>

RankSignals ==
    /\ pc = "call"
    /\ fn = "rank_signals"
    /\ ret' = rank_signals(args)
    /\ locals' = [none |-> TRUE]
    /\ pc' = "done"
    /\ UNCHANGED <<fn, args>>

(***************************************************************************)
(* technical.py : calculate_rsi, calculate_macd, calculate_ema,            *)
(* calculate_sma, calculate_volume_ratio, detect_macd_crossover,           *)
(* detect_ema_crossover                                                    *)
(*                                                                         *)
(* A float is a record: NaN, or an exact fraction num/den in lowest terms. *)
(* A pandas Series is a sequence of floats.  The pandas operations         *)
(* (diff, where, rolling(window).mean, ewm(span, adjust=False).mean,       *)
(* tail, iloc) are modelled by what pandas computes.                       *)
(***************************************************************************)
NaN == [nan |-> TRUE, num |-> 0, den |-> 1]

\* the float n/d, d > 0
Rat(n, d) ==
    LET g == Gcd(Abs(n), d)
    IN  [nan |-> FALSE, num |-> n \div g, den |-> d \div g]

Lcm(a, b) == (a \div Gcd(a, b)) * b

\* a - b on floats; NaN if either is NaN
RatSub(a, b) ==
    IF a.nan \/ b.nan THEN NaN
    ELSE LET l == Lcm(a.den, b.den)
         IN  Rat(a.num * (l \div a.den) - b.num * (l \div b.den), l)

\* (1 - alpha) * y + alpha * x with alpha = 2 / (span + 1)
EwmStep(y, x, span) ==
    IF y.nan \/ x.nan THEN NaN
    ELSE LET l == Lcm(y.den, x.den)
         IN  Rat((span - 1) * y.num * (l \div y.den) + 2 * x.num * (l \div x.den),
                 (span + 1) * l)

\* xs.ewm(span=span, adjust=False).mean(): a value for every bar
RECURSIVE Ewm(_, _)
Ewm(xs, span) ==
    IF Len(xs) <= 1 THEN xs
    ELSE LET prev == Ewm(SubSeq(xs, 1, Len(xs) - 1), span)
         IN  Append(prev, EwmStep(prev[Len(prev)], xs[Len(xs)], span))

\* the sum of the integers ns[from..to]
RECURSIVE SumRange(_, _, _)
SumRange(ns, from, to) ==
    IF from > to THEN 0 ELSE ns[to] + SumRange(ns, from, to - 1)

\* ns.rolling(window=window).mean(): NaN until the window is full
RollingMean(ns, window) ==
    [i \in 1..Len(ns) |->
        IF i < window THEN NaN ELSE Rat(SumRange(ns, i - window + 1, i), window)]

\* the closes as floats
AsFloats(ns) == [i \in 1..Len(ns) |-> Rat(ns[i], 1)]

\* delta.where(delta > 0, 0) for delta = close.diff(): the first delta is NaN,
\* NaN > 0 is false, so the first entry is 0
Gains(closes) ==
    [i \in 1..Len(closes) |->
        IF i = 1 THEN 0 ELSE Max(closes[i] - closes[i - 1], 0)]

\* -delta.where(delta < 0, 0)
Losses(closes) ==
    [i \in 1..Len(closes) |->
        IF i = 1 THEN 0 ELSE Max(closes[i - 1] - closes[i], 0)]

\* 100 - (100 / (1 + gain / loss)) in float arithmetic: x / 0 is inf for x > 0
\* and NaN for x = 0; 100 / inf is 0
RsiValue(gain, loss) ==
    IF gain.nan \/ loss.nan THEN NaN
    ELSE IF loss.num = 0
    THEN IF gain.num = 0 THEN NaN ELSE Rat(100, 1)
    ELSE Rat(100 * gain.num * loss.den, gain.num * loss.den + loss.num * gain.den)

calculate_rsi(a) ==
    LET gain == RollingMean(Gains(a.close), a.period)
        loss == RollingMean(Losses(a.close), a.period)
    IN  [i \in 1..Len(a.close) |-> RsiValue(gain[i], loss[i])]

calculate_ema(a) == Ewm(AsFloats(a.close), a.period)

calculate_sma(a) == RollingMean(a.close, a.period)

calculate_macd(a) ==
    LET ema_fast == Ewm(AsFloats(a.close), a.fast)
        ema_slow == Ewm(AsFloats(a.close), a.slow)
        macd_line == [i \in 1..Len(a.close) |-> RatSub(ema_fast[i], ema_slow[i])]
        signal_line == Ewm(macd_line, a.signal)
    IN  [macd_line |-> macd_line, signal_line |-> signal_line,
         histogram |-> [i \in 1..Len(a.close) |-> RatSub(macd_line[i], signal_line[i])]]

\* volume.tail(period).mean() takes the bars there are; iloc[-1] raises
\* IndexError on an empty frame
calculate_volume_ratio(a) ==
    LET n == Len(a.volume)
        taken == Min(n, a.period)
    IN  IF n = 0 THEN [raised |-> TRUE, value |-> NaN]
        ELSE LET total == SumRange(a.volume, n - taken + 1, n)
             IN  [raised |-> FALSE,
                  value |-> IF total > 0
                            THEN Rat(a.volume[n] * taken, total)
                            ELSE Rat(1, 1)]

\* x < 0 and x > 0 on floats: a NaN compares false with everything
Negative(x) == ~x.nan /\ x.num < 0

Positive(x) == ~x.nan /\ x.num > 0

\* mutant: a zero difference at the previous bar counts as below
detect_macd_crossover_FromZero(a) ==
    IF Len(a.first) < 2 \/ Len(a.second) < 2 THEN "none"
    ELSE LET prev_diff == RatSub(a.first[Len(a.first) - 1], a.second[Len(a.second) - 1])
             curr_diff == RatSub(a.first[Len(a.first)], a.second[Len(a.second)])
         IN  IF ~Positive(prev_diff) /\ ~prev_diff.nan /\ Positive(curr_diff) THEN "bullish"
             ELSE IF Positive(prev_diff) /\ Negative(curr_diff) THEN "bearish"
             ELSE "none"

detect_macd_crossover(a) ==
    IF Len(a.first) < 2 \/ Len(a.second) < 2 THEN "none"
    ELSE LET prev_diff == RatSub(a.first[Len(a.first) - 1], a.second[Len(a.second) - 1])
             curr_diff == RatSub(a.first[Len(a.first)], a.second[Len(a.second)])
         IN  IF Negative(prev_diff) /\ Positive(curr_diff) THEN "bullish"
             ELSE IF Positive(prev_diff) /\ Negative(curr_diff) THEN "bearish"
             ELSE "none"

detect_ema_crossover(a) ==
    IF Len(a.first) < 2 \/ Len(a.second) < 2 THEN "none"
    ELSE LET prev_diff == RatSub(a.first[Len(a.first) - 1], a.second[Len(a.second) - 1])
             curr_diff == RatSub(a.first[Len(a.first)], a.second[Len(a.second)])
         IN  IF Negative(prev_diff) /\ Positive(curr_diff) THEN "bullish"
             ELSE IF Positive(prev_diff) /\ Negative(curr_diff) THEN "bearish"
             ELSE "none"

\* windows of up to MaxBars bars with closes (or volumes) from a small range
Windows(values) == UNION {[1..n -> values] : n \in 0..MaxBars}

\* the periods the indicators are called with
Periods == {2, 3}

PeriodInputs == [close : Windows({1, 2, 3}), period : Periods]

MacdInputs == [close : Windows({1, 2, 3}), fast : {2}, slow : {3}, signal : {2}]

VolumeInputs == [volume : Windows({0, 1, 2}), period : Periods]

\* two series, each with values 0, 1 and NaN
CrossoverInputs ==
    [first : Windows({Rat(0, 1), Rat(1, 1), NaN}),
     second : Windows({Rat(0, 1), Rat(1, 1), NaN})]

CalculateRsi ==
    /\ pc = "call"
    /\ fn = "calculate_rsi"
    /\ ret' = calculate_rsi(args)
    /\ locals' = [gain |-> RollingMean(Gains(args.close), args.period),
                  loss |-> RollingMean(Losses(args.close), args.period)]
    /\ pc' = "done"
    /\ UNCHANGED <<fn, args>>

CalculateEma ==
    /\ pc = "call"
    /\ fn = "calculate_ema"
    /\ ret' = calculate_ema(args)
    /\ locals' = [none |-> TRUE]
    /\ pc' = "done"
    /\ UNCHANGED <<fn, args>>

CalculateSma ==
    /\ pc = "call"
    /\ fn = "calculate_sma"
    /\ ret' = calculate_sma(args)
    /\ locals' = [none |-> TRUE]
    /\ pc' = "done"
    /\ UNCHANGED <<fn, args>>

CalculateMacd ==
    /\ pc = "call"
    /\ fn = "calculate_macd"
    /\ ret' = calculate_macd(args)
    /\ locals' = [none |-> TRUE]
    /\ pc' = "done"
    /\ UNCHANGED <<fn, args>>

CalculateVolumeRatio ==
    /\ pc = "call"
    /\ fn = "calculate_volume_ratio"
    /\ ret' = calculate_volume_ratio(args)
    /\ locals' = [none |-> TRUE]
    /\ pc' = "done"
    /\ UNCHANGED <<fn, args>>

DetectMacdCrossover ==
    /\ pc = "call"
    /\ fn = "detect_macd_crossover"
    /\ ret' = detect_macd_crossover(args)
    /\ locals' = [none |-> TRUE]
    /\ pc' = "done"
    /\ UNCHANGED <<fn, args>>

DetectEmaCrossover ==
    /\ pc = "call"
    /\ fn = "detect_ema_crossover"
    /\ ret' = detect_ema_crossover(args)
    /\ locals' = [none |-> TRUE]
    /\ pc' = "done"
    /\ UNCHANGED <<fn, args>>

(***************************************************************************)
(* main.py : run_analysis, analyze_symbol                                  *)
(*                                                                         *)
(* args: the configuration and, for every symbol and timeframe, what the   *)
(* exchange client answers when that unit is evaluated.  locals: the loop  *)
(* positions, results of analyze_symbol, all_signals and filtered of       *)
(* run_analysis.  pc: "timeframe" in the loop of analyze_symbol, "collect" *)
(* at its return, then "filter", "rank" and "done".                        *)
(***************************************************************************)
\* default TIMEFRAMES
Timeframes == <<"1h", "4h">>

\* default EMA_LONG_PERIOD
DefaultEmaLong == 26

\* top_n passed to rank_signals
RunTopN == 5

\* the bars analyze_technicals asks for
RequiredBars(ema_long_period) == Max(ema_long_period, 26) + 10

\* load_config with the environment unset, and one with a lower MIN_SIGNAL_SCORE
Configs ==
    {[timeframes |-> Timeframes, rsi_oversold |-> 30, rsi_overbought |-> 70,
      ema_long_period |-> DefaultEmaLong,
      funding_rate_extreme_positive |-> DefaultExtremePositive,
      funding_rate_extreme_negative |-> DefaultExtremeNegative,
      liquidation_threshold_usd |-> DefaultThresholdUsd,
      min_signal_score |-> m] : m \in {DefaultMinScore, 50}}

\* analyze_technicals: None below the required bars, else the bias and
\* strength calculate_bias gives for the indicator readings of the window
analyze_technicals(u, config) ==
    IF u.bars < RequiredBars(config.ema_long_period)
    THEN NoneLens
    ELSE LET b == calculate_bias(
                      [rsi_signal |-> RsiSignal(u.rsi, config.rsi_oversold, config.rsi_overbought),
                       current_rsi |-> u.rsi, macd_crossover |-> u.macd_crossover,
                       current_histogram |-> u.histogram, ema_crossover |-> u.ema_crossover,
                       price_vs_ema |-> u.price_vs_ema, volume_spike |-> u.volume_spike,
                       rsi_oversold |-> config.rsi_oversold,
                       rsi_overbought |-> config.rsi_overbought])
         IN  Lens(b.bias, b.strength)

\* the funding lens of the unit
UnitFunding(u, config) ==
    LET f == analyze_funding_rate(
                 [funding_rate |-> u.funding_rate,
                  extreme_positive |-> config.funding_rate_extreme_positive,
                  extreme_negative |-> config.funding_rate_extreme_negative,
                  high_positive |-> DefaultHighPositive, high_negative |-> DefaultHighNegative])
    IN  Lens(f.signal, f.score)

\* the liquidation lens of the unit
UnitLiquidation(u, config) ==
    LET e == estimate_liquidations_from_trades(
                 [trades |-> u.trades, price_threshold_percent |-> DefaultPriceThreshold])
        l == analyze_liquidations(
                 [long_liquidations_usd |-> e.long_liqs, short_liquidations_usd |-> e.short_liqs,
                  threshold_usd |-> config.liquidation_threshold_usd])
    IN  Lens(l.signal, l.score)

\* the body of the try block for one timeframe: an exception of get_klines or
\* get_funding_rate leaves it, otherwise the AggregatedSignal is made
AnalyzeUnit(symbol, timeframe, u, config) ==
    IF u.klines_raise \/ u.funding_raise
    THEN [raised |-> TRUE]
    ELSE [raised |-> FALSE,
          aggregated |->
              [symbol |-> symbol, timeframe |-> timeframe]
              @@ aggregate_signals(
                     [technical |-> analyze_technicals(u, config),
                      funding |-> UnitFunding(u, config),
                      liquidation |-> UnitLiquidation(u, config),
                      weights |-> DefaultWeights])]

\* mutant: an exception ends analyze_symbol, the symbol's results are lost
AfterUnit_Abort(l, outcome) ==
    IF outcome.raised
    THEN [l EXCEPT !.timeframe = Len(Timeframes) + 1, !.results = <<>>]
    ELSE [l EXCEPT !.timeframe = @ + 1, !.results = Append(@, outcome.aggregated)]

\* results[timeframe] = aggregated, or the except branch: log and continue
AfterUnit(l, outcome) ==
    IF outcome.raised
    THEN [l EXCEPT !.timeframe = @ + 1]
    ELSE [l EXCEPT !.timeframe = @ + 1, !.results = Append(@, outcome.aggregated)]

\* the non-neutral signals of symbol_results, in timeframe order
NonNeutral(results) ==
    LET directional(s) == s.signal_type # "neutral"
    IN  SelectSeq(results, directional)

\* indicator readings that give a strong long technical bias
StrongLongWindow ==
    [rsi |-> 20, macd_crossover |-> "bullish", histogram |-> 1, ema_crossover |-> "bullish",
     price_vs_ema |-> 3, volume_spike |-> TRUE]

\* indicator readings that give a neutral technical bias
QuietWindow ==
    [rsi |-> 50, macd_crossover |-> "none", histogram |-> 0, ema_crossover |-> "none",
     price_vs_ema |-> 0, volume_spike |-> FALSE]

\* a tape with 2,000,000 USD of long liquidations
LongLiquidationTape ==
    <<[price |-> 200, quote_qty |-> 1000, time |-> 1, is_buyer_maker |-> FALSE],
      [price |-> 190, quote_qty |-> 2000000, time |-> 2, is_buyer_maker |-> TRUE]>>

\* a tape with 2,000,000 USD of short liquidations
ShortLiquidationTape ==
    <<[price |-> 200, quote_qty |-> 1000, time |-> 1, is_buyer_maker |-> TRUE],
      [price |-> 210, quote_qty |-> 2000000, time |-> 2, is_buyer_maker |-> FALSE]>>

\* what the client answers for one (symbol, timeframe): get_klines raises; or
\* get_funding_rate raises; or 35 bars with a crowded-long market; or a full
\* window with a strong long market; or a full window with a quiet market
UnitData ==
    {[klines_raise |-> TRUE, funding_raise |-> FALSE, bars |-> 0, funding_rate |-> 0,
      trades |-> <<>>] @@ QuietWindow,
     [klines_raise |-> FALSE, funding_raise |-> TRUE, bars |-> 100, funding_rate |-> 0,
      trades |-> LongLiquidationTape] @@ StrongLongWindow,
     [klines_raise |-> FALSE, funding_raise |-> FALSE, bars |-> 35, funding_rate |-> 20,
      trades |-> ShortLiquidationTape] @@ QuietWindow,
     [klines_raise |-> FALSE, funding_raise |-> FALSE, bars |-> 100, funding_rate |-> -20,
      trades |-> LongLiquidationTape] @@ StrongLongWindow,
     [klines_raise |-> FALSE, funding_raise |-> FALSE, bars |-> 100, funding_rate |-> 0,
      trades |-> <<>>] @@ QuietWindow}

\* TIMEFRAMES set to three timeframes
WideTimeframes == <<"15m", "1h", "4h">>

\* indicator readings that give a strong short technical bias
StrongShortWindow ==
    [rsi |-> 80, macd_crossover |-> "bearish", histogram |-> -1, ema_crossover |-> "bearish",
     price_vs_ema |-> -3, volume_spike |-> TRUE]

\* a full window in a long market with all three lenses agreeing (total 10.0)
AllLongUnit ==
    [klines_raise |-> FALSE, funding_raise |-> FALSE, bars |-> 100, funding_rate |-> -20,
     trades |-> LongLiquidationTape] @@ StrongLongWindow

\* a full window in a long market with a mild funding lens and no liquidations
\* (total 5.8)
MildLongUnit ==
    [klines_raise |-> FALSE, funding_raise |-> FALSE, bars |-> 100, funding_rate |-> -6,
     trades |-> <<>>] @@ StrongLongWindow

\* a full window in a short market with all three lenses agreeing (total 10.0)
AllShortUnit ==
    [klines_raise |-> FALSE, funding_raise |-> FALSE, bars |-> 100, funding_rate |-> 20,
     trades |-> ShortLiquidationTape] @@ StrongShortWindow

\* what the client answers for the three timeframes of one symbol
SymbolProfiles ==
    {<<AllLongUnit, AllLongUnit, AllLongUnit>>,
     <<AllLongUnit, MildLongUnit, AllLongUnit>>,
     <<MildLongUnit, MildLongUnit, AllLongUnit>>,
     <<MildLongUnit, AllLongUnit, AllShortUnit>>,
     <<AllShortUnit, AllLongUnit, MildLongUnit>>,
     <<AllShortUnit, AllShortUnit, AllShortUnit>>}

\* runs over three timeframes in which every unit yields a directional signal
WideRunInputs ==
    [market : [1..NumSymbols -> SymbolProfiles],
     config : {[c EXCEPT !.timeframes = WideTimeframes] : c \in Configs}]

RunInputs ==
    [market : [1..NumSymbols -> [1..Len(Timeframes) -> UnitData]], config : Configs]

\* the state at "for symbol in symbols", before the first symbol
RunStart ==
    [symbol |-> 1, timeframe |-> 1, results |-> <<>>, all_signals |-> <<>>,
     filtered |-> <<>>]

\* one iteration of "for timeframe in config.timeframes", its handler included
AnalyzeTimeframe ==
    /\ pc = "timeframe"
    /\ fn = "run_analysis"
    /\ LET tf == locals.timeframe
           outcome == AnalyzeUnit(locals.symbol, args.config.timeframes[tf],
                                  args.market[locals.symbol][tf], args.config)
           after == AfterUnit(locals, outcome)
       IN  /\ locals' = after
           /\ pc' = IF after.timeframe > Len(args.config.timeframes)
                    THEN "collect" ELSE "timeframe"
    /\ UNCHANGED <<fn, args, ret>>

\* analyze_symbol returns; run_analysis appends the non-neutral results and
\* goes to the next symbol
CollectSymbol ==
    /\ pc = "collect"
    /\ fn = "run_analysis"
    /\ locals' = [locals EXCEPT !.all_signals = @ \o NonNeutral(locals.results),
                                !.results = <<>>,
                                !.symbol = @ + 1,
                                !.timeframe = 1]
    /\ pc' = IF locals.symbol + 1 > NumSymbols THEN "filter" ELSE "timeframe"
    /\ UNCHANGED <<fn, args, ret>>

\* filtered = filter_signals(all_signals, min_score=config.min_signal_score)
RunFilter ==
    /\ pc = "filter"
    /\ fn = "run_analysis"
    /\ locals' = [locals EXCEPT !.filtered =
                      filter_signals([signals |-> locals.all_signals,
                                      min_score |-> args.config.min_signal_score,
                                      signal_types |-> NoTypes])]
    /\ pc' = "rank"
    /\ UNCHANGED <<fn, args, ret>>

\* ranked = rank_signals(filtered, top_n=5); return ranked['long'], ranked['short']
RunRank ==
    /\ pc = "rank"
    /\ fn = "run_analysis"
    /\ ret' = rank_signals([signals |-> locals.filtered, top_n |-> RunTopN])
    /\ pc' = "done"
    /\ UNCHANGED <<fn, args, locals>>

(***************************************************************************)
(* Properties of aggregate_signals.                                        *)
(***************************************************************************)
AggDone == pc = "done" /\ fn = "aggregate_signals"

\* weight x score of the argument lens n if it is present and points to d
WeightedIfDir(n, d) ==
    IF args[n].present /\ args[n].dir = d THEN args.weights[n] * args[n].score ELSE 0

\* the weighted sum of direction d, straight from the arguments
WeightedSum(d) ==
    WeightedIfDir("technical", d) + WeightedIfDir("funding", d)
    + WeightedIfDir("liquidation", d)

\* the present lenses that point to d
LensesPointing(d) ==
    {n \in {"technical", "funding", "liquidation"} : args[n].present /\ args[n].dir = d}

\* C1: the direction is decided by strict comparison of the two weighted sums:
\* long iff the long sum is larger, short iff the short sum is larger, and on
\* any tie the result is neutral with base score, confluence count, confluence
\* bonus and total score all 0.
C1_StrictComparison ==
    AggDone =>
        /\ locals.long_score = WeightedSum("long")
        /\ locals.short_score = WeightedSum("short")
        /\ (ret.signal_type = "long") <=> (WeightedSum("long") > WeightedSum("short"))
        /\ (ret.signal_type = "short") <=> (WeightedSum("short") > WeightedSum("long"))
        /\ WeightedSum("long") = WeightedSum("short") =>
               /\ ret.signal_type = "neutral"
               /\ locals.base_score = 0
               /\ ret.confluence_count = 0
               /\ ret.confluence_bonus = 0
               /\ ret.total_score = 0

\* C1 witness: a tie between non-zero opposing sums has been aggregated
C1_Witness ==
    /\ AggDone
    /\ WeightedSum("long") = WeightedSum("short")
    /\ WeightedSum("long") > 0
    /\ ret.signal_type = "neutral"

C3_TotalScore ==
    AggDone =>
        LET direction_score ==
                IF ret.signal_type = "neutral" THEN 0 ELSE WeightedSum(ret.signal_type)
            uncapped == direction_score + ret.confluence_bonus
            capped == IF uncapped > 10000 THEN 10000 ELSE uncapped
        IN  \* the reported tenth is a nearest tenth of the capped sum
            /\ 100 * ret.total_score - capped <= 50
            /\ capped - 100 * ret.total_score <= 50
            /\ locals.total_score = capped

\* C3 witness: a call where the cap at 10 cuts the sum
C3_Witness ==
    /\ AggDone
    /\ ret.signal_type # "neutral"
    /\ WeightedSum(ret.signal_type) + ret.confluence_bonus > 10000
    /\ ret.total_score = 100

\* the strength category of a reported score (tenths)
StrengthOfReported(t) ==
    IF t >= 85 THEN "very_strong"
    ELSE IF t >= 70 THEN "strong"
    ELSE IF t >= 50 THEN "moderate"
    ELSE "weak"

\* C4: the strength category agrees with the thresholds applied to the
\* reported total_score (>= 8.5 very_strong, >= 7 strong, >= 5 moderate,
\* else weak).
C4_StrengthMatchesReported ==
    AggDone => ret.strength = StrengthOfReported(ret.total_score)

\* the fields of an AggregatedSignal that C5 compares
OutcomeView(r) ==
    <<r.signal_type, r.total_score, r.strength, r.technical_score, r.funding_score,
      r.liquidation_score, r.confluence_count, r.confluence_bonus, r.reasons>>

\* C5: a call with a lens absent returns the same signal_type, total_score,
\* strength, per-lens contributions, confluence_count, confluence_bonus and
\* reasons as the call with that lens present but neutral.
C5_AbsentIsNeutral ==
    AggDone =>
        \A n \in {"technical", "funding", "liquidation"} :
            ~args[n].present =>
                \A s \in {0, 100} :
                    OutcomeView(aggregate_signals([args EXCEPT ![n] = Lens("neutral", s)]))
                        = OutcomeView(ret)

\* C5 witness: one lens is absent and the two others were combined
C5_Witness ==
    /\ AggDone
    /\ ~args.funding.present
    /\ args.technical.present /\ args.liquidation.present
    /\ ret.signal_type = "short"
    /\ ret.confluence_count = 2


\* the direction against d
Opposite(d) == IF d = "long" THEN "short" ELSE "long"

\* the present lenses of the call that point against the winner
DissentingLenses ==
    IF ret.signal_type = "neutral" THEN {}
    ELSE LensesPointing(Opposite(ret.signal_type))

\* the fields of an AggregatedSignal that a dissenting lens must not touch
CoreView(r) ==
    <<r.signal_type, r.total_score, r.strength, r.confluence_count, r.confluence_bonus>>

\* the reported contribution of lens n in the AggregatedSignal r
ContributionIn(r, n) ==
    IF n = "technical" THEN r.technical_score
    ELSE IF n = "funding" THEN r.funding_score
    ELSE r.liquidation_score

\* the reasons of r other than the reason of lens n
ReasonsBut(r, n) ==
    LET other(x) == x # n
    IN  SelectSeq(r.reasons, other)

\* C25: with a lens pointing against the winner, the call without that lens,
\* or with that lens at any other score, returns the same signal_type,
\* total_score, strength, confluence_count and confluence_bonus whenever its
\* winner is the same; the other lenses' contributions and every reason but
\* the dissenting lens's are the same too.
C25_DissentNeverLowers ==
    AggDone =>
        \A n \in DissentingLenses :
            \A other \in {NoneLens} \cup {Lens(args[n].dir, s) : s \in ScoreGrid} :
                LET r == aggregate_signals([args EXCEPT ![n] = other])
                IN  r.signal_type = ret.signal_type =>
                        /\ CoreView(r) = CoreView(ret)
                        /\ ReasonsBut(r, n) = ReasonsBut(ret, n)
                        /\ \A m \in {"technical", "funding", "liquidation"} \ {n} :
                               ContributionIn(r, m) = ContributionIn(ret, m)

\* C25 witness: a dissenting lens with a positive score next to two agreeing
\* lenses
C25_Witness ==
    /\ AggDone
    /\ ret.signal_type = "short"
    /\ DissentingLenses = {"funding"}
    /\ args.funding.score > 0
    /\ ret.confluence_count = 2
    /\ ret.funding_score > 0

\* lens n is present and points in the direction of the result
AgreesWithResult(n) == args[n].present /\ args[n].dir = ret.signal_type

\* C26: with the default weights a total_score of at least 7.0 needs two
\* agreeing lenses, the technical one among them; a total_score of at least
\* 8.5 needs the technical and the funding lens to agree; a single lens never
\* reaches 7.0.
C26_WhatAStrongSignalNeeds ==
    (AggDone /\ args.weights = DefaultWeights) =>
        /\ ret.total_score >= 70 =>
               ret.confluence_count >= 2 /\ AgreesWithResult("technical")
        /\ ret.total_score >= 85 =>
               AgreesWithResult("technical") /\ AgreesWithResult("funding")
        /\ Cardinality(LensesPointing("long") \cup LensesPointing("short")) <= 1 =>
               ret.total_score < 70

\* C26 witness: technical and funding agree and reach 8.5 while the
\* liquidation lens points the other way
C26_Witness ==
    /\ AggDone
    /\ ret.total_score >= 85
    /\ ret.signal_type = "long"
    /\ args.liquidation.present /\ args.liquidation.dir = "short"

(***************************************************************************)
(* Properties of calculate_bias.                                           *)
(***************************************************************************)
BiasDone == pc = "done" /\ fn = "calculate_bias"

\* strength (tenths) is a nearest tenth of the score num / den
NearestTenth(strength, num, den) ==
    /\ 2 * (strength * den - 10 * num) <= den
    /\ 2 * (10 * num - strength * den) <= den

\* C8: bias is long iff long_score > short_score + 1, short iff short_score >
\* long_score + 1, otherwise neutral with strength 0; a non-neutral strength is
\* the winning score capped at 10 and rounded to one decimal; scores that
\* differ by at most 1 resolve to neutral.
C8_MarginOfOne ==
    BiasDone =>
        LET long == locals.long_score
            short == locals.short_score
            one == locals.den
            diff == IF long >= short THEN long - short ELSE short - long
            capped(x) == IF x > 10 * one THEN 10 * one ELSE x
        IN  /\ (ret.bias = "long") <=> (long > short + one)
            /\ (ret.bias = "short") <=> (short > long + one)
            /\ ret.bias \in {"long", "short", "neutral"}
            /\ ret.bias = "neutral" => ret.strength = 0
            /\ ret.bias = "long" => NearestTenth(ret.strength, capped(long), one)
            /\ ret.bias = "short" => NearestTenth(ret.strength, capped(short), one)
            /\ diff <= one => ret.bias = "neutral" /\ ret.strength = 0

\* C8 witness: one side is ahead, by no more than 1, and the bias is neutral
C8_Witness ==
    /\ BiasDone
    /\ locals.short_score > locals.long_score
    /\ locals.long_score > 0
    /\ locals.short_score <= locals.long_score + locals.den
    /\ ret.bias = "neutral"

\* the worked example: RSI 25 classified oversold against the threshold 30, no
\* MACD and no EMA crossover, histogram > 0, price_vs_ema 0, no volume spike
C9_Example ==
    /\ BiasDone
    /\ args.current_rsi = 25 /\ args.rsi_oversold = 30 /\ args.rsi_signal = "oversold"
    /\ args.macd_crossover = "none" /\ args.ema_crossover = "none"
    /\ args.current_histogram > 0
    /\ args.price_vs_ema = 0
    /\ ~args.volume_spike

\* C9 as stated: the example yields long_score = 2 + (30-25)/30 = 13/6,
\* short_score = 0, bias long and strength 2.2.
C9_AsStated ==
    C9_Example =>
        /\ 6 * locals.long_score = 13 * locals.den
        /\ locals.short_score = 0
        /\ ret.bias = "long"
        /\ ret.strength = 22

\* C9 amended: the positive histogram adds 0.5, so the example yields
\* long_score = 2 + (30-25)/30 + 0.5 = 8/3, short_score = 0, bias long and
\* strength 2.7.
C9_WithHistogram ==
    C9_Example =>
        /\ 3 * locals.long_score = 8 * locals.den
        /\ locals.short_score = 0
        /\ ret.bias = "long"
        /\ ret.strength = 27

\* C9 witness: the example has been evaluated
C9_Witness == C9_Example /\ ret.bias = "long"

\* C10: the volume spike adds exactly 1 to the side that leads after the RSI,
\* MACD, EMA and price contributions and nothing on a tie; switching it on
\* never turns long into short or short into long and never lowers the
\* strength.
C10_VolumeSpike ==
    BiasDone =>
        LET one == locals.den
            off == calculate_bias([args EXCEPT !.volume_spike = FALSE])
        IN  /\ locals.pre_long > locals.pre_short /\ args.volume_spike =>
                   /\ locals.long_score = locals.pre_long + one
                   /\ locals.short_score = locals.pre_short
            /\ locals.pre_short > locals.pre_long /\ args.volume_spike =>
                   /\ locals.short_score = locals.pre_short + one
                   /\ locals.long_score = locals.pre_long
            /\ locals.pre_long = locals.pre_short \/ ~args.volume_spike =>
                   /\ locals.long_score = locals.pre_long
                   /\ locals.short_score = locals.pre_short
            /\ args.volume_spike =>
                   /\ ~(off.bias = "long" /\ ret.bias = "short")
                   /\ ~(off.bias = "short" /\ ret.bias = "long")
                   /\ ret.strength >= off.strength

\* C10 witness: the spike lifts a leading side over the margin, the bias turns
\* from neutral to short
C10_Witness ==
    /\ BiasDone
    /\ args.volume_spike
    /\ locals.pre_short > locals.pre_long
    /\ calculate_bias([args EXCEPT !.volume_spike = FALSE]).bias = "neutral"
    /\ ret.bias = "short"

(***************************************************************************)
(* Properties of all four functions.                                       *)
(***************************************************************************)
\* C6: every score is in [0, 10]: the strength of calculate_bias, the score of
\* analyze_funding_rate and of analyze_liquidations, the total_score of
\* aggregate_signals with the default weights.
C6_ScoresInRange ==
    pc = "done" =>
        /\ fn = "calculate_bias" => ret.strength \in 0..100
        /\ fn = "analyze_funding_rate" => ret.score \in 0..100
        /\ fn = "analyze_liquidations" => ret.score \in 0..100
        /\ fn = "aggregate_signals" => ret.total_score \in 0..100

\* C6 witness: a funding rate beyond twice the extreme threshold, where only
\* the cap keeps the score at 10
C6_Witness ==
    /\ pc = "done"
    /\ fn = "analyze_funding_rate"
    /\ args.extreme_negative < 0
    /\ args.funding_rate < 2 * args.extreme_negative
    /\ ret.score = 100

\* the reported per-lens contribution of lens n
ReportedContribution(n) ==
    IF n = "technical" THEN ret.technical_score
    ELSE IF n = "funding" THEN ret.funding_score
    ELSE ret.liquidation_score

\* the present lenses of the call whose direction is neutral
NeutralLenses ==
    {n \in {"technical", "funding", "liquidation"} :
        args[n].present /\ args[n].dir = "neutral"}

\* C7: a classifier that returns neutral returns score 0; a neutral lens
\* handed to aggregate_signals adds nothing to either direction sum, has a
\* reported contribution of 0, increments no agreement counter and adds no
\* reason.
C7_NeutralIsZero ==
    pc = "done" =>
        /\ fn = "calculate_bias" /\ ret.bias = "neutral" => ret.strength = 0
        /\ fn = "analyze_funding_rate" /\ ret.signal = "neutral" => ret.score = 0
        /\ fn = "analyze_liquidations" /\ ret.signal = "neutral" => ret.score = 0
        /\ fn = "aggregate_signals" =>
               /\ locals.long_score = WeightedSum("long")
               /\ locals.short_score = WeightedSum("short")
               /\ locals.signals_agreeing_long = Cardinality(LensesPointing("long"))
               /\ locals.signals_agreeing_short = Cardinality(LensesPointing("short"))
               /\ \A n \in NeutralLenses :
                      /\ ReportedContribution(n) = 0
                      /\ \A i \in 1..Len(ret.reasons) : ret.reasons[i] # n

\* C7 witness: a neutral lens that carries a score was aggregated with two
\* directional ones
C7_Witness ==
    /\ AggDone
    /\ args.technical = Lens("neutral", 100)
    /\ args.funding.dir = "long" /\ args.liquidation.dir = "long"
    /\ ret.confluence_count = 2

(***************************************************************************)
(* Properties of analyze_funding_rate.                                     *)
(***************************************************************************)
FundingDone == pc = "done" /\ fn = "analyze_funding_rate"

\* score (tenths) is a nearest tenth of min(factor * num / den, cap), den > 0
NearestTenthOfCapped(score, factor, num, den, cap) ==
    LET scaled == 10 * factor * num
        capped == IF scaled > 10 * cap * den THEN 10 * cap * den ELSE scaled
    IN  /\ 2 * (score * den - capped) <= den
        /\ 2 * (capped - score * den) <= den

\* C11: the rules are evaluated top to bottom on the signed rate and the first
\* match wins: extreme negative, high negative, extreme positive, high
\* positive, moderate positive (> 0.01), moderate negative (< -0.01), neutral,
\* each with its signal, intensity and score; with extreme_negative = -0.1 the
\* rate -0.1 gives long/extreme/5.0 and the rate -0.2 gives score 10.0.
C11_FirstMatchWins ==
    FundingDone =>
        LET rate == args.funding_rate
            mag == IF rate < 0 THEN -rate ELSE rate
            en == -args.extreme_negative
            ep == args.extreme_positive
            r1 == rate <= args.extreme_negative
            r2 == ~r1 /\ rate <= args.high_negative
            r3 == ~r1 /\ ~r2 /\ rate >= args.extreme_positive
            r4 == ~r1 /\ ~r2 /\ ~r3 /\ rate >= args.high_positive
            r5 == ~r1 /\ ~r2 /\ ~r3 /\ ~r4 /\ rate > 1
            r6 == ~r1 /\ ~r2 /\ ~r3 /\ ~r4 /\ ~r5 /\ rate < -1
            r7 == ~r1 /\ ~r2 /\ ~r3 /\ ~r4 /\ ~r5 /\ ~r6
        IN  /\ r1 => /\ ret.signal = "long" /\ ret.intensity = "extreme"
                     /\ NearestTenthOfCapped(ret.score, 5, mag, en, 10)
            /\ r2 => /\ ret.signal = "long" /\ ret.intensity = "high"
                     /\ NearestTenthOfCapped(ret.score, 4, mag, en, 7)
            /\ r3 => /\ ret.signal = "short" /\ ret.intensity = "extreme"
                     /\ NearestTenthOfCapped(ret.score, 5, rate, ep, 10)
            /\ r4 => /\ ret.signal = "short" /\ ret.intensity = "high"
                     /\ NearestTenthOfCapped(ret.score, 4, rate, ep, 7)
            /\ r5 => ret.signal = "short" /\ ret.intensity = "moderate" /\ ret.score = 20
            /\ r6 => ret.signal = "long" /\ ret.intensity = "moderate" /\ ret.score = 20
            /\ r7 => ret.signal = "neutral" /\ ret.intensity = "low" /\ ret.score = 0
            /\ args.extreme_negative = -10 /\ rate = -10 =>
                   ret.signal = "long" /\ ret.intensity = "extreme" /\ ret.score = 50
            /\ args.extreme_negative = -10 /\ rate = -20 => ret.score = 100

\* C11 witness: a rate that matches the high negative rule only (the score is
\* 4 x 0.07 / 0.1 = 2.8)
C11_Witness ==
    /\ FundingDone
    /\ args.extreme_negative = -10 /\ args.high_negative = -5
    /\ args.funding_rate = -7
    /\ ret.signal = "long" /\ ret.intensity = "high" /\ ret.score = 28

\* the call of C12: default thresholds, funding rate 0.03 percent
C12_Example ==
    /\ FundingDone
    /\ args.extreme_positive = 10 /\ args.extreme_negative = -10
    /\ args.high_positive = 5 /\ args.high_negative = -5
    /\ args.funding_rate = 3

\* C12 as stated: with the default thresholds the rate 0.03 gives signal
\* neutral and score 0.
C12_AsStated == C12_Example => ret.signal = "neutral" /\ ret.score = 0

\* C12 amended: with the default thresholds the rate 0.03 is above 0.01 and
\* gives signal short, intensity moderate and score 2.
C12_ModerateShort ==
    C12_Example => ret.signal = "short" /\ ret.intensity = "moderate" /\ ret.score = 20

\* C12 witness: the example has been classified
C12_Witness == C12_Example /\ ret.signal # "neutral"

(***************************************************************************)
(* Properties of analyze_liquidations.                                     *)
(***************************************************************************)
LiqDone == pc = "done" /\ fn = "analyze_liquidations"

\* score (tenths) is a nearest tenth of
\* min(min(own/T, 5) + min(own/max(other, 1) - 1, 5), 10); for small totals
ScoreAsStated(score, own, other, T) ==
    LET ms == IF other >= 1 THEN other ELSE 1
        den == T * ms
        m == IF own * ms > 5 * den THEN 5 * den ELSE own * ms
        i == IF (own - ms) * T > 5 * den THEN 5 * den ELSE (own - ms) * T
        sum == IF m + i > 10 * den THEN 10 * den ELSE m + i
    IN  /\ 2 * (score * den - 10 * sum) <= den
        /\ 2 * (10 * sum - score * den) <= den

\* C13: neutral/0 when long + short < T/2; otherwise long when long >= T and
\* long > 1.5 x short, with the stated score; otherwise short under the
\* symmetric condition; otherwise neutral/0.  The long and the short condition
\* never hold together, and T = 1,000,000, long = 2,000,000, short = 200,000
\* gives long with score 7.0.
C13_Cascade ==
    LiqDone =>
        LET long == args.long_liquidations_usd
            short == args.short_liquidations_usd
            T == args.threshold_usd
            low == 2 * (long + short) < T
            longRule == long >= T /\ 2 * long > 3 * short
            shortRule == short >= T /\ 2 * short > 3 * long
        IN  /\ low => ret.signal = "neutral" /\ ret.score = 0
            /\ ~low /\ longRule =>
                   /\ ret.signal = "long"
                   /\ T <= 1000 => ScoreAsStated(ret.score, long, short, T)
            /\ ~low /\ ~longRule /\ shortRule =>
                   /\ ret.signal = "short"
                   /\ T <= 1000 => ScoreAsStated(ret.score, short, long, T)
            /\ ~low /\ ~longRule /\ ~shortRule => ret.signal = "neutral" /\ ret.score = 0
            /\ ~(longRule /\ shortRule)
            /\ T = 1000000 /\ long = 2000000 /\ short = 200000 =>
                   ret.signal = "long" /\ ret.score = 70

\* C13 witness: the worked example has been classified
C13_Witness ==
    /\ LiqDone
    /\ args.threshold_usd = 1000000
    /\ args.long_liquidations_usd = 2000000
    /\ args.short_liquidations_usd = 200000
    /\ ret.signal = "long"

\* C14: when the "balanced" outcome is returned for totals with
\* long + short >= T, neither side exceeds 1.5 x the other.
C14_BalancedMeansNoDominance ==
    LiqDone /\ ret.description = "balanced"
    /\ args.long_liquidations_usd + args.short_liquidations_usd >= args.threshold_usd =>
        /\ ~(2 * args.long_liquidations_usd > 3 * args.short_liquidations_usd)
        /\ ~(2 * args.short_liquidations_usd > 3 * args.long_liquidations_usd)

(***************************************************************************)
(* Properties of estimate_liquidations_from_trades.                        *)
(***************************************************************************)
EstimateDone == pc = "done" /\ fn = "estimate_liquidations_from_trades"

\* the position of the i-th supplied trade in time order, trades of equal time
\* in the order supplied
TimeRank(i) ==
    1 + Cardinality({j \in 1..Len(args.trades) :
                        \/ args.trades[j].time < args.trades[i].time
                        \/ args.trades[j].time = args.trades[i].time /\ j < i})

\* the supplied trade that immediately precedes the i-th one in time order
Predecessor(i) ==
    CHOOSE j \in 1..Len(args.trades) : TimeRank(j) = TimeRank(i) - 1

\* the supplied trades that count as long liquidations
LongCounted ==
    {i \in 1..Len(args.trades) :
        /\ TimeRank(i) > 1
        /\ args.trades[Predecessor(i)].price > 0
        /\ (args.trades[i].price - args.trades[Predecessor(i)].price) * 1000
               < -(args.price_threshold_percent * args.trades[Predecessor(i)].price)
        /\ args.trades[i].is_buyer_maker}

\* the supplied trades that count as short liquidations
ShortCounted ==
    {i \in 1..Len(args.trades) :
        /\ TimeRank(i) > 1
        /\ args.trades[Predecessor(i)].price > 0
        /\ (args.trades[i].price - args.trades[Predecessor(i)].price) * 1000
               > args.price_threshold_percent * args.trades[Predecessor(i)].price
        /\ ~args.trades[i].is_buyer_maker}

RECURSIVE NotionalOf(_)
NotionalOf(S) ==
    IF S = {} THEN 0
    ELSE LET i == CHOOSE x \in S : TRUE
         IN  args.trades[i].quote_qty + NotionalOf(S \ {i})

\* C15: over the trades in time order a trade's notional goes to the long
\* estimate iff the change from its predecessor is below -threshold and it is
\* buyer-maker, to the short estimate iff the change is above +threshold and it
\* is not buyer-maker; no trade is counted twice, the first trade never, a
\* trade after a price <= 0 never, and at most one trade gives (0, 0).
C15_EstimatorRule ==
    EstimateDone =>
        /\ ret.long_liqs = NotionalOf(LongCounted)
        /\ ret.short_liqs = NotionalOf(ShortCounted)
        /\ LongCounted \cap ShortCounted = {}
        /\ Len(args.trades) <= 1 => ret.long_liqs = 0 /\ ret.short_liqs = 0

\* C15 witness: a tape supplied out of time order with a long and a short
\* liquidation
C15_Witness ==
    /\ EstimateDone
    /\ ret.long_liqs > 0 /\ ret.short_liqs > 0
    /\ TimeRank(1) > 1

\* the permutations of 1..n, as functions
OrderingsOf(n) ==
    {f \in [1..n -> 1..n] : \A i, j \in 1..n : f[i] = f[j] => i = j}

\* the argument list with the trades supplied in the order f
Reordered(f) ==
    [args EXCEPT !.trades = [i \in 1..Len(args.trades) |-> args.trades[f[i]]]]

DistinctTimes ==
    \A i, j \in 1..Len(args.trades) :
        args.trades[i].time = args.trades[j].time => i = j

\* C16 as stated: the estimates are the same for every permutation of the
\* supplied list.
C16_AnyPermutation ==
    EstimateDone =>
        \A f \in OrderingsOf(Len(args.trades)) :
            estimate_liquidations_from_trades(Reordered(f)) = ret

\* C16 amended: the estimates are the same for every permutation of a list
\* whose timestamps are pairwise distinct.
C16_DistinctTimes ==
    EstimateDone /\ DistinctTimes =>
        \A f \in OrderingsOf(Len(args.trades)) :
            estimate_liquidations_from_trades(Reordered(f)) = ret

\* C16 witness: a tape supplied out of time order, with distinct timestamps,
\* that yields a liquidation
C16_Witness ==
    /\ EstimateDone
    /\ DistinctTimes
    /\ Len(args.trades) = 3
    /\ args.trades[1].time > args.trades[2].time
    /\ ret.long_liqs > 0

(***************************************************************************)
(* Properties of filter_signals and rank_signals.                          *)
(***************************************************************************)
FilterDone == pc = "done" /\ fn = "filter_signals"

RankDone == pc = "done" /\ fn = "rank_signals"

\* the elements of a sequence
Elements(xs) == {xs[i] : i \in 1..Len(xs)}

\* xs has no element twice
NoRepeats(xs) == Cardinality(Elements(xs)) = Len(xs)

\* xs is in descending order of total_score
Descending(xs) ==
    \A i \in 1..(Len(xs) - 1) : xs[i].total_score >= xs[i + 1].total_score

\* the type of s is one of the listed types
TypeListed(s) ==
    \E i \in 1..Len(args.signal_types.types) : args.signal_types.types[i] = s.signal_type

\* C17 as stated: the result is exactly the non-neutral input signals with
\* total_score >= min_score whose type is in the list whenever a list is given,
\* sorted by total_score descending.
C17_AnyGivenList ==
    FilterDone =>
        /\ Elements(ret) =
               {s \in Elements(args.signals) :
                   /\ s.signal_type # "neutral"
                   /\ s.total_score >= args.min_score
                   /\ ~args.signal_types.none => TypeListed(s)}
        /\ NoRepeats(ret)
        /\ Descending(ret)

\* C17 amended: the type restriction applies when a non-empty list is given;
\* an empty list restricts nothing, like no list.
C17_NonEmptyList ==
    FilterDone =>
        /\ Elements(ret) =
               {s \in Elements(args.signals) :
                   /\ s.signal_type # "neutral"
                   /\ s.total_score >= args.min_score
                   /\ (~args.signal_types.none /\ args.signal_types.types # <<>>)
                          => TypeListed(s)}
        /\ NoRepeats(ret)
        /\ Descending(ret)

\* C17 witness: with a type list given, a signal at exactly min_score is kept
\* and sorted behind a later, higher one, while the third signal is dropped
C17_Witness ==
    /\ FilterDone
    /\ ~args.signal_types.none /\ args.signal_types.types # <<>>
    /\ Len(args.signals) = 3
    /\ Len(ret) = 2
    /\ ret[2].total_score = args.min_score
    /\ ret[1].symbol > ret[2].symbol

\* the input signals of one type
OfType(t) == {s \in Elements(args.signals) : s.signal_type = t}

\* xs is a top list for the type t: only signals of that type from the input,
\* descending, of length min(top_n, number of such signals), and no signal left
\* out beats one that is in
TopList(xs, t) ==
    /\ Elements(xs) \subseteq OfType(t)
    /\ NoRepeats(xs)
    /\ Descending(xs)
    /\ Len(xs) = Min(args.top_n, Cardinality(OfType(t)))
    /\ \A out \in OfType(t) \ Elements(xs) :
           \A kept \in Elements(xs) : ~(out.total_score > kept.total_score)

\* C18: rank_signals returns a top list of the LONG signals and a top list of
\* the SHORT signals; neutral signals are in neither.
C18_RankedLists ==
    RankDone => TopList(ret.long, "long") /\ TopList(ret.short, "short")

\* C18 witness: the long list is truncated to the better of two LONG signals,
\* and a neutral signal is supplied
C18_Witness ==
    /\ RankDone
    /\ Len(ret.long) = 1
    /\ Cardinality(OfType("long")) = 2
    /\ OfType("neutral") # {}
    /\ \E s \in OfType("long") \ Elements(ret.long) :
           s.total_score < ret.long[1].total_score

(***************************************************************************)
(* Specification: one call of one function on one argument list.           *)
(***************************************************************************)
NoValue == [none |-> TRUE]

Init ==
    /\ pc = "call"
    /\ \/ fn = "calculate_bias" /\ args \in BiasInputs
       \/ fn = "analyze_funding_rate" /\ args \in FundingInputs
       \/ fn = "analyze_liquidations" /\ args \in LiquidationInputs
       \/ fn = "aggregate_signals" /\ args \in AggregateInputs
    /\ ret = NoValue
    /\ locals = NoValue

Next ==
    \/ CalculateBias
    \/ AnalyzeFundingRate
    \/ AnalyzeLiquidations
    \/ AggregateSignals

Spec == Init /\ [][Next]_vars

(***************************************************************************)
(* Specification: one call of the liquidation estimator on one trade tape. *)
(***************************************************************************)
InitEstimate ==
    /\ pc = "call"
    /\ fn = "estimate_liquidations_from_trades"
    /\ args \in EstimateInputs
    /\ ret = NoValue
    /\ locals = NoValue

NextEstimate ==
    \/ EstimateLiquidations

SpecEstimate == InitEstimate /\ [][NextEstimate]_vars


(***************************************************************************)
(* Specification: one call of filter_signals or rank_signals on one list   *)
(* of signals.                                                             *)
(***************************************************************************)
InitRanking ==
    /\ pc = "call"
    /\ \/ fn = "filter_signals" /\ args \in FilterInputs
       \/ fn = "rank_signals" /\ args \in RankInputs
    /\ ret = NoValue
    /\ locals = NoValue

NextRanking ==
    \/ FilterSignals
    \/ RankSignals

SpecRanking == InitRanking /\ [][NextRanking]_vars


(***************************************************************************)
(* Specification: one run of run_analysis over NumSymbols symbols and the  *)
(* configured timeframes.                                                  *)
(***************************************************************************)
InitRun ==
    /\ pc = "timeframe"
    /\ fn = "run_analysis"
    /\ args \in RunInputs
    /\ ret = NoValue
    /\ locals = RunStart

NextRun ==
    \/ AnalyzeTimeframe
    \/ CollectSymbol
    \/ RunFilter
    \/ RunRank

SpecRun == InitRun /\ [][NextRun]_vars

(***************************************************************************)
(* Properties of run_analysis.                                             *)
(***************************************************************************)
InRun == fn = "run_analysis"

\* what the client answers for the unit a signal is about
UnitOf(s) ==
    args.market[s.symbol][CHOOSE t \in 1..Len(Timeframes) : Timeframes[t] = s.timeframe]

\* C19: a unit whose window has fewer bars than max(ema_long_period, 26) + 10
\* is skipped: no AggregatedSignal of it is in the results of analyze_symbol or
\* in the signals run_analysis hands to filtering and ranking.
C19_InsufficientBarsSkipped ==
    InRun =>
        \A s \in Elements(locals.results) \cup Elements(locals.all_signals) :
            UnitOf(s).bars >= RequiredBars(args.config.ema_long_period)

\* the outcome of the unit (i, t) evaluated on its own
UnitAlone(i, t) == AnalyzeUnit(i, Timeframes[t], args.market[i][t], args.config)

\* the AggregatedSignals of the first n timeframes of symbol i that raise
\* nothing, in timeframe order
SymbolSignals(i, n) ==
    LET outcomes == [t \in 1..n |-> UnitAlone(i, t)]
        completed(o) == ~o.raised
        kept == SelectSeq(outcomes, completed)
    IN  [k \in 1..Len(kept) |-> kept[k].aggregated]

\* the non-neutral signals of the first n symbols, in symbol order
RECURSIVE CollectedUpTo(_)
CollectedUpTo(n) ==
    IF n = 0 THEN <<>>
    ELSE LET directional(s) == s.signal_type # "neutral"
         IN  CollectedUpTo(n - 1) \o SelectSeq(SymbolSignals(n, Len(Timeframes)), directional)

\* C20: whatever units raise, every unit is visited in order and every unit
\* that raises nothing contributes the AggregatedSignal of its own data; the
\* run is always at a position whose step can be taken (a unit to evaluate, a
\* symbol to collect, filtering, ranking) until filtering and ranking have
\* been done on exactly those signals.
C20_FailuresAreIsolated ==
    InRun =>
        /\ pc \in {"timeframe", "collect"} =>
               /\ locals.symbol \in 1..NumSymbols
               /\ locals.results = SymbolSignals(locals.symbol, locals.timeframe - 1)
               /\ locals.all_signals = CollectedUpTo(locals.symbol - 1)
        /\ pc \in {"filter", "rank", "done"} =>
               locals.all_signals = CollectedUpTo(NumSymbols)
        /\ pc = "done" =>
               ret = rank_signals(
                         [signals |-> filter_signals(
                                          [signals |-> CollectedUpTo(NumSymbols),
                                           min_score |-> args.config.min_signal_score,
                                           signal_types |-> NoTypes]),
                          top_n |-> RunTopN])
        /\ pc \in {"timeframe", "collect", "filter", "rank", "done"}
        /\ pc = "timeframe" => locals.timeframe \in 1..Len(Timeframes)

\* C20 witness: a finished run in which get_klines raised for the first unit
\* and get_funding_rate for the last one, and the two units in between are
\* both ranked
C20_Witness ==
    /\ InRun
    /\ pc = "done"
    /\ args.market[1][1].klines_raise
    /\ args.market[NumSymbols][Len(Timeframes)].funding_raise
    /\ Len(ret.long) = 2
    /\ ret.long[1].symbol = 1 /\ ret.long[1].timeframe = Timeframes[2]
    /\ ret.long[2].symbol = NumSymbols /\ ret.long[2].timeframe = Timeframes[1]


(***************************************************************************)
(* Specification: one call of one indicator function or crossover detector *)
(* on one window of bars.                                                  *)
(***************************************************************************)
InitIndicators ==
    /\ pc = "call"
    /\ \/ fn \in {"calculate_rsi", "calculate_ema", "calculate_sma"} /\ args \in PeriodInputs
       \/ fn = "calculate_macd" /\ args \in MacdInputs
       \/ fn = "calculate_volume_ratio" /\ args \in VolumeInputs
       \/ fn \in {"detect_macd_crossover", "detect_ema_crossover"} /\ args \in CrossoverInputs
    /\ ret = NoValue
    /\ locals = NoValue

NextIndicators ==
    \/ CalculateRsi
    \/ CalculateEma
    \/ CalculateSma
    \/ CalculateMacd
    \/ CalculateVolumeRatio
    \/ DetectMacdCrossover
    \/ DetectEmaCrossover

SpecIndicators == InitIndicators /\ [][NextIndicators]_vars

(***************************************************************************)
(* Properties of the indicator functions and crossover detectors.          *)
(***************************************************************************)
\* no entry of the series is a number
AllNaN(xs) == \A i \in 1..Len(xs) : xs[i].nan

\* C21: an indicator function called on fewer bars than its period (for MACD
\* its slow period) returns no number: every value is NaN, or it raises.
C21_ShortWindowSignalled ==
    /\ (pc = "done" /\ fn \in {"calculate_rsi", "calculate_ema", "calculate_sma"}
            /\ Len(args.close) < args.period)
           => AllNaN(ret)
    /\ (pc = "done" /\ fn = "calculate_macd" /\ Len(args.close) < args.slow)
           => AllNaN(ret.macd_line) /\ AllNaN(ret.signal_line) /\ AllNaN(ret.histogram)
    /\ (pc = "done" /\ fn = "calculate_volume_ratio" /\ Len(args.volume) < args.period)
           => ret.raised \/ ret.value.nan

\* C22: for every bar with a full trailing window calculate_rsi gives a number
\* in [0, 100], and exactly 100 when the average loss over the window is 0.
C22_RsiDefined ==
    (pc = "done" /\ fn = "calculate_rsi") =>
        \A i \in args.period..Len(args.close) :
            /\ ~ret[i].nan
            /\ 0 <= ret[i].num /\ ret[i].num <= 100 * ret[i].den
            /\ locals.loss[i].num = 0 => ret[i] = Rat(100, 1)

CrossoverDone == pc = "done" /\ fn \in {"detect_macd_crossover", "detect_ema_crossover"}

\* both series have the last two bars
TwoBars == Len(args.first) >= 2 /\ Len(args.second) >= 2

\* the difference first - second, k bars before the last one, is negative
DiffNegative(k) ==
    LET x == args.first[Len(args.first) - k]
        y == args.second[Len(args.second) - k]
    IN  ~x.nan /\ ~y.nan /\ x.num * y.den < y.num * x.den

\* the difference first - second, k bars before the last one, is positive
DiffPositive(k) ==
    LET x == args.first[Len(args.first) - k]
        y == args.second[Len(args.second) - k]
    IN  ~x.nan /\ ~y.nan /\ x.num * y.den > y.num * x.den

\* C23: a detector returns 'bullish' iff the difference is negative at the
\* second-to-last bar and positive at the last, 'bearish' iff positive then
\* negative, 'none' otherwise (fewer than 2 bars included); both detectors
\* return the same on the same inputs.
C23_Crossover ==
    CrossoverDone =>
        /\ ret \in {"bullish", "bearish", "none"}
        /\ ret = "bullish" <=> (TwoBars /\ DiffNegative(1) /\ DiffPositive(0))
        /\ ret = "bearish" <=> (TwoBars /\ DiffPositive(1) /\ DiffNegative(0))
        /\ detect_macd_crossover(args) = detect_ema_crossover(args)

\* C23 witness: a bullish crossing found in two series of different length
C23_Witness ==
    /\ CrossoverDone
    /\ ret = "bullish"
    /\ Len(args.first) # Len(args.second)


(***************************************************************************)
(* Specification: aggregate_signals called twice on the same signal        *)
(* objects.                                                                *)
(***************************************************************************)
InitRepeat ==
    /\ pc = "first"
    /\ fn = "aggregate_signals"
    /\ args \in AggregateInputs
    /\ ret = NoValue
    /\ locals = RepeatStart(args)

NextRepeat ==
    \/ AggregateFirst
    \/ AggregateAgain

SpecRepeat == InitRepeat /\ [][NextRepeat]_vars

(***************************************************************************)
(* Properties of repeated aggregation.                                     *)
(***************************************************************************)
\* an AggregatedSignal without its timestamp
WithoutTimestamp(r) == [f \in DOMAIN r \ {"timestamp"} |-> r[f]]

InitWideRun ==
    /\ pc = "timeframe"
    /\ fn = "run_analysis"
    /\ args \in WideRunInputs
    /\ ret = NoValue
    /\ locals = RunStart

NextWideRun ==
    \/ AnalyzeTimeframe
    \/ CollectSymbol
    \/ RunFilter
    \/ RunRank

SpecWideRun == InitWideRun /\ [][NextWideRun]_vars

(***************************************************************************)
(* Properties of the lists run_analysis returns.                           *)
(***************************************************************************)
RunDone == fn = "run_analysis" /\ pc = "done"

\* the AggregatedSignals of type t, with at least the minimum score, of the
\* units of the run that evaluate without raising
Eligible(t) ==
    LET units == {<<i, j>> : i \in DOMAIN args.market, j \in 1..Len(args.config.timeframes)}
        outcomes == {AnalyzeUnit(u[1], args.config.timeframes[u[2]],
                                 args.market[u[1]][u[2]], args.config) : u \in units}
    IN  {o.aggregated :
            o \in {x \in outcomes :
                      IF x.raised THEN FALSE
                      ELSE /\ x.aggregated.signal_type = t
                           /\ x.aggregated.total_score >= args.config.min_signal_score}}

\* xs holds at most 5 signals of type t of the run, eligible ones only, sorted
\* descending, no unit twice, and nothing eligible that is left out has a higher
\* score than a signal in xs
ReturnedList(xs, t) ==
    LET eligible == Eligible(t)
        kept == Elements(xs)
    IN  /\ Len(xs) <= 5
        /\ Descending(xs)
        /\ kept \subseteq eligible
        /\ \A i, j \in 1..Len(xs) :
               (xs[i].symbol = xs[j].symbol /\ xs[i].timeframe = xs[j].timeframe) => i = j
        /\ \A out \in eligible \ kept :
               \A k \in kept : ~(k.total_score < out.total_score)

\* C27: run_analysis returns a long list of LONG and a short list of SHORT
\* signals, each of at most 5 signals with total_score >= min_signal_score,
\* sorted descending, no unit twice, and no eligible signal left out while a
\* lower-scored one of its type is returned.
C27_ReturnedLists ==
    RunDone => ReturnedList(ret.long, "long") /\ ReturnedList(ret.short, "short")

\* C27 witness: six LONG signals pass the filter, five are returned with both
\* scores among them, and the one left out has the lower score
C27_Witness ==
    /\ RunDone
    /\ Cardinality(Eligible("long")) = 6
    /\ Len(ret.long) = 5
    /\ ret.long[1].total_score > ret.long[5].total_score
    /\ \E out \in Eligible("long") \ Elements(ret.long) :
           out.total_score = ret.long[5].total_score

(***************************************************************************)
(* main.py : main; config.py : validate_config                             *)
(*                                                                         *)
(* args: the loaded configuration and what the two steps of the try block  *)
(* do when they are reached.  locals: the errors of validate_config, the   *)
(* number of exchange requests made, whether run_analysis returned and     *)
(* whether send_notifications returned.  pc: "validate", "analysis",       *)
(* "notify", "done".  ret: the exit code.                                  *)
(***************************************************************************)
\* str.lower() on the exchange names that occur
Lower(s) ==
    CASE s = "Binance" -> "binance"
      [] s = "Bybit" -> "bybit"
      [] s = "OKX" -> "okx"
      [] s = "Kraken" -> "kraken"
      [] OTHER -> s

\* mutant: the RSI thresholds are not compared
validate_config_NoRsiCheck(config) ==
    (IF config.telegram_bot_token = "" THEN <<"TELEGRAM_BOT_TOKEN">> ELSE <<>>)
    \o (IF config.telegram_chat_id = "" THEN <<"TELEGRAM_CHAT_ID">> ELSE <<>>)
    \o (IF config.min_signal_score < 0 \/ config.min_signal_score > 100
        THEN <<"MIN_SIGNAL_SCORE">> ELSE <<>>)
    \o (IF Lower(config.preferred_exchange) \notin {"auto", "binance", "bybit", "okx"}
        THEN <<"PREFERRED_EXCHANGE">> ELSE <<>>)

\* the list of errors, in the order of the checks; min_signal_score in tenths
validate_config(config) ==
    (IF config.telegram_bot_token = "" THEN <<"TELEGRAM_BOT_TOKEN">> ELSE <<>>)
    \o (IF config.telegram_chat_id = "" THEN <<"TELEGRAM_CHAT_ID">> ELSE <<>>)
    \o (IF config.min_signal_score < 0 \/ config.min_signal_score > 100
        THEN <<"MIN_SIGNAL_SCORE">> ELSE <<>>)
    \o (IF config.rsi_oversold >= config.rsi_overbought
        THEN <<"RSI_OVERSOLD">> ELSE <<>>)
    \o (IF Lower(config.preferred_exchange) \notin {"auto", "binance", "bybit", "okx"}
        THEN <<"PREFERRED_EXCHANGE">> ELSE <<>>)

\* configurations load_config can produce from the environment
MainConfigs ==
    [telegram_bot_token : {"", "token"},
     telegram_chat_id : {"", "chat"},
     min_signal_score : {-1, 0, DefaultMinScore, 100, 101},
     rsi_oversold : {30, 70, 80},
     rsi_overbought : {70},
     preferred_exchange : {"auto", "bybit", "Binance", "OKX", "Kraken", ""}]

\* what run_analysis does when called: the exchange requests it makes before it
\* raises or returns, and the number of signals it returns
AnalysisOutcomes ==
    {[raises |-> TRUE, requests |-> 1, signals |-> 0],
     [raises |-> FALSE, requests |-> 3, signals |-> 0],
     [raises |-> FALSE, requests |-> 3, signals |-> 2]}

\* what send_notifications does when called: the messages handed to the
\* notifier before it raises or returns
NotificationOutcomes(signals) ==
    {[raises |-> TRUE, messages |-> 0],
     [raises |-> FALSE, messages |-> IF signals = 0 THEN 1 ELSE 2]}

\* errors = validate_config(config); if errors: return 1
MainValidate ==
    /\ pc = "validate"
    /\ fn = "main"
    /\ LET errors == validate_config(args.config)
       IN  /\ locals' = [locals EXCEPT !.errors = errors]
           /\ IF errors # <<>>
              THEN ret' = 1 /\ pc' = "done"
              ELSE ret' = ret /\ pc' = "analysis"
    /\ UNCHANGED <<fn, args>>

\* long_signals, short_signals = await run_analysis(config), or the handler
MainRunAnalysis ==
    /\ pc = "analysis"
    /\ fn = "main"
    /\ locals' = [locals EXCEPT !.requests = args.analysis.requests,
                                !.analysed = ~args.analysis.raises]
    /\ IF args.analysis.raises
       THEN ret' = 1 /\ pc' = "done"
       ELSE ret' = ret /\ pc' = "notify"
    /\ UNCHANGED <<fn, args>>

\* await send_notifications(...); return 0, or the handler
MainSendNotifications ==
    /\ pc = "notify"
    /\ fn = "main"
    /\ \E outcome \in NotificationOutcomes(args.analysis.signals) :
           /\ outcome.raises = args.notification_raises
           /\ locals' = [locals EXCEPT !.messages = outcome.messages,
                                       !.notified = ~outcome.raises]
           /\ ret' = IF outcome.raises THEN 1 ELSE 0
    /\ pc' = "done"
    /\ UNCHANGED <<fn, args>>

(***************************************************************************)
(* Specification: one run of main.                                         *)
(***************************************************************************)
InitMain ==
    /\ pc = "validate"
    /\ fn = "main"
    /\ args \in [config : MainConfigs, analysis : AnalysisOutcomes,
                 notification_raises : BOOLEAN]
    /\ ret = NoValue
    /\ locals = [errors |-> <<>>, requests |-> 0, analysed |-> FALSE, messages |-> 0,
                 notified |-> FALSE]

NextMain ==
    \/ MainValidate
    \/ MainRunAnalysis
    \/ MainSendNotifications

SpecMain == InitMain /\ [][NextMain]_vars

(***************************************************************************)
(* Properties of main.                                                     *)
(***************************************************************************)
MainDone == fn = "main" /\ pc = "done"

\* one of the configuration errors: a missing Telegram token or chat id, a
\* minimum score outside [0, 10], rsi_oversold >= rsi_overbought, or an
\* exchange that is none of auto, binance, bybit, okx in any letter case
ConfigInError(c) ==
    \/ c.telegram_bot_token = ""
    \/ c.telegram_chat_id = ""
    \/ c.min_signal_score < 0
    \/ c.min_signal_score > 100
    \/ c.rsi_oversold >= c.rsi_overbought
    \/ c.preferred_exchange \notin
           {"auto", "binance", "bybit", "okx", "Binance", "OKX"}

\* C28: with a configuration error main makes no exchange request, runs no
\* analysis and sends no notification, and returns 1; it returns 0 only after
\* run_analysis and send_notifications have both returned; it returns 1 when
\* run_analysis raises.
C28_ExitCodes ==
    fn = "main" =>
        /\ ConfigInError(args.config) =>
               /\ locals.requests = 0 /\ ~locals.analysed
               /\ locals.messages = 0 /\ ~locals.notified
               /\ pc \in {"validate", "done"}
               /\ pc = "done" => ret = 1
        /\ pc = "done" =>
               /\ ret \in {0, 1}
               /\ ret = 0 => locals.analysed /\ locals.notified
               /\ (~ConfigInError(args.config) /\ args.analysis.raises) => ret = 1

\* C28 witness: rsi_oversold equal to rsi_overbought is the only error, and
\* main has returned
C28_Witness ==
    /\ MainDone
    /\ ret = 1
    /\ Len(locals.errors) = 1
    /\ args.config.rsi_oversold = args.config.rsi_overbought
    /\ ~args.analysis.raises

(***************************************************************************)
(* exchanges/manager.py : ExchangeManager                                  *)
(*                                                                         *)
(* args: the clients _initialize_exchanges could construct, in priority    *)
(* order, and preferred_exchange.  locals: _active_exchange, the number of *)
(* calls made, and the last operation with the health of the exchanges     *)
(* during it.  ret: what the last operation returned or raised.  The       *)
(* health of an exchange is steady during one operation and free to change *)
(* between operations.                                                     *)
(***************************************************************************)
\* the clients in the order _initialize_exchanges appends them
Priority == <<"Binance", "Bybit", "OKX">>

\* BybitFuturesClient and OKXFuturesClient derive from BaseExchangeClient and
\* carry name and health_check; BinanceFuturesClient is a plain class with
\* neither, so that reading either attribute raises AttributeError
HasClientInterface(exchange) == exchange # "Binance"

\* the exchanges whose availability varies
Checked == {"Bybit", "OKX"}

\* _exchanges after __init__: every non-empty selection of the three clients
ExchangeLists ==
    {SelectSeq(Priority, LAMBDA e : e \in chosen) : chosen \in (SUBSET {"Binance", "Bybit", "OKX"}) \ {{}}}

Returned(value, active) == [kind |-> "return", value |-> value, active |-> active]

Raised(error, active) == [kind |-> "raise", value |-> error, active |-> active]

\* _get_exchange_by_name: the first client whose lower-cased name is the
\* given name, "None" if there is none; reading the name of a client without
\* one raises
RECURSIVE get_exchange_by_name(_, _)
get_exchange_by_name(exchanges, name) ==
    IF exchanges = <<>> THEN [raised |-> FALSE, exchange |-> "None"]
    ELSE IF ~HasClientInterface(Head(exchanges)) THEN [raised |-> TRUE, exchange |-> "None"]
    ELSE IF Lower(Head(exchanges)) = name THEN [raised |-> FALSE, exchange |-> Head(exchanges)]
    ELSE get_exchange_by_name(Tail(exchanges), name)

\* "for exchange in self._exchanges": the first client whose health check
\* passes becomes the active one; for a client without a name the handler of
\* the loop body raises itself; RuntimeError after the last client
RECURSIVE TryInOrder(_, _)
TryInOrder(exchanges, health) ==
    IF exchanges = <<>> THEN Raised("RuntimeError", "None")
    ELSE IF ~HasClientInterface(Head(exchanges)) THEN Raised("AttributeError", "None")
    ELSE IF health[Head(exchanges)] THEN Returned(Head(exchanges), Head(exchanges))
    ELSE TryInOrder(Tail(exchanges), health)

\* the part of get_working_client behind the test of the cached client
AfterCacheMiss(exchanges, preferred_exchange, health) ==
    IF preferred_exchange = "auto" THEN TryInOrder(exchanges, health)
    ELSE LET preferred == get_exchange_by_name(exchanges, preferred_exchange)
         IN  IF preferred.raised THEN Raised("AttributeError", "None")
             ELSE IF preferred.exchange # "None" /\ health[preferred.exchange]
             THEN Returned(preferred.exchange, preferred.exchange)
             ELSE TryInOrder(exchanges, health)

\* get_working_client: the cached client if its health check passes, else the
\* cache is cleared and the preferred client and the list are tried
get_working_client(exchanges, preferred_exchange, active, health) ==
    IF active # "None" /\ health[active]
    THEN Returned(active, active)
    ELSE AfterCacheMiss(exchanges, preferred_exchange, health)

\* force_exchange: True and the client becomes the active one if it is
\* configured and its health check passes, else False
force_exchange(exchanges, name, active, health) ==
    LET exchange == get_exchange_by_name(exchanges, name)
    IN  IF exchange.raised THEN Raised("AttributeError", active)
        ELSE IF exchange.exchange # "None" /\ health[exchange.exchange]
        THEN Returned(TRUE, exchange.exchange)
        ELSE Returned(FALSE, active)

GetWorkingClient ==
    /\ pc = "ready"
    /\ fn = "ExchangeManager"
    /\ locals.calls < MaxCalls
    /\ \E health \in [Checked -> BOOLEAN] :
           LET result == get_working_client(args.exchanges, args.preferred_exchange,
                                            locals.active, health)
           IN  /\ ret' = [kind |-> result.kind, value |-> result.value]
               /\ locals' = [active |-> result.active, calls |-> locals.calls + 1,
                             op |-> "get_working_client", health |-> health]
    /\ UNCHANGED <<pc, fn, args>>

ForceExchange ==
    /\ pc = "ready"
    /\ fn = "ExchangeManager"
    /\ locals.calls < MaxCalls
    /\ \E name \in {"binance", "bybit", "okx"}, health \in [Checked -> BOOLEAN] :
           LET result == force_exchange(args.exchanges, name, locals.active, health)
           IN  /\ ret' = [kind |-> result.kind, value |-> result.value]
               /\ locals' = [active |-> result.active, calls |-> locals.calls + 1,
                             op |-> "force_exchange", health |-> health]
    /\ UNCHANGED <<pc, fn, args>>

(***************************************************************************)
(* Specification: a manager and a series of calls of its operations.       *)
(***************************************************************************)
InitManager ==
    /\ pc = "ready"
    /\ fn = "ExchangeManager"
    /\ args \in [exchanges : ExchangeLists, preferred_exchange : {"auto", "okx"}]
    /\ ret = NoValue
    /\ locals = [active |-> "None", calls |-> 0, op |-> "__init__",
                 health |-> [e \in Checked |-> FALSE]]

NextManager ==
    \/ GetWorkingClient
    \/ ForceExchange

SpecManager == InitManager /\ [][NextManager]_vars

(***************************************************************************)
(* Properties of ExchangeManager.                                          *)
(***************************************************************************)
\* the configured exchanges whose health check passed during the last call,
\* in priority order
PassingExchanges ==
    SelectSeq(args.exchanges, LAMBDA e : HasClientInterface(e) /\ locals.health[e])

\* C29 as stated: a call of get_working_client with preferred_exchange "auto"
\* returns a client whenever the health check of a configured exchange passes
\* at that call, namely the first such exchange in the order Binance, Bybit,
\* OKX, and it raises RuntimeError only when no configured exchange's health
\* check passes.
C29_PriorityFallback ==
    (/\ fn = "ExchangeManager"
     /\ locals.op = "get_working_client"
     /\ args.preferred_exchange = "auto") =>
        /\ PassingExchanges # <<>> =>
               ret = [kind |-> "return", value |-> Head(PassingExchanges)]
        /\ ret.kind = "return" => PassingExchanges # <<>>
        /\ ret = [kind |-> "raise", value |-> "RuntimeError"] => PassingExchanges = <<>>

(***************************************************************************)
(* main.py : the funding thresholds of a validated configuration           *)
(*                                                                         *)
(* args: the loaded configuration and the funding rate the client reports. *)
(* locals: the errors of validate_config and the four thresholds that      *)
(* reach analyze_funding_rate.  pc: "validate", "funding", "done".         *)
(***************************************************************************)
\* configurations with FUNDING_EXTREME_POSITIVE and FUNDING_EXTREME_NEGATIVE
\* set in the environment (0.01 percent units), with and without a Telegram
\* token
FundingConfigs ==
    {[telegram_bot_token |-> token, telegram_chat_id |-> "chat",
      min_signal_score |-> DefaultMinScore, rsi_oversold |-> 30, rsi_overbought |-> 70,
      preferred_exchange |-> "auto",
      funding_rate_extreme_positive |-> ep, funding_rate_extreme_negative |-> en] :
        token \in {"", "token"},
        ep \in {DefaultExtremePositive, DefaultHighPositive, 4},
        en \in {DefaultExtremeNegative, DefaultHighNegative, -4}}

\* the keyword arguments of the call in analyze_symbol: the two extreme
\* thresholds from the configuration, the high ones left at their defaults
FundingCall(config, funding_rate) ==
    [funding_rate |-> funding_rate,
     extreme_positive |-> config.funding_rate_extreme_positive,
     extreme_negative |-> config.funding_rate_extreme_negative,
     high_positive |-> DefaultHighPositive, high_negative |-> DefaultHighNegative]

\* main: errors = validate_config(config); if errors: return 1
ValidateFundingConfig ==
    /\ pc = "validate"
    /\ fn = "analyze_symbol"
    /\ LET errors == validate_config(args.config)
       IN  /\ locals' = [locals EXCEPT !.errors = errors]
           /\ IF errors # <<>>
              THEN ret' = 1 /\ pc' = "done"
              ELSE ret' = ret /\ pc' = "funding"
    /\ UNCHANGED <<fn, args>>

\* analyze_symbol: funding = analyze_funding_rate(...)
FundingOfSymbol ==
    /\ pc = "funding"
    /\ fn = "analyze_symbol"
    /\ LET call == FundingCall(args.config, args.funding_rate)
       IN  /\ locals' = [locals EXCEPT !.called = TRUE, !.thresholds = call]
           /\ ret' = analyze_funding_rate(call)
    /\ pc' = "done"
    /\ UNCHANGED <<fn, args>>

(***************************************************************************)
(* Specification: a configuration is validated and, when accepted, the     *)
(* funding rate of one symbol is classified with it.                       *)
(***************************************************************************)
InitFundingConfig ==
    /\ pc = "validate"
    /\ fn = "analyze_symbol"
    /\ args \in [config : FundingConfigs, funding_rate : -RateMax..RateMax]
    /\ ret = NoValue
    /\ locals = [errors |-> <<>>, called |-> FALSE, thresholds |-> NoValue]

NextFundingConfig ==
    \/ ValidateFundingConfig
    \/ FundingOfSymbol

SpecFundingConfig == InitFundingConfig /\ [][NextFundingConfig]_vars

(***************************************************************************)
(* Properties of the funding thresholds of a configuration.                *)
(***************************************************************************)
\* C30 as stated: when analyze_symbol has called analyze_funding_rate under an
\* accepted configuration, the thresholds of the call satisfy
\* extreme_negative < high_negative < 0 < high_positive < extreme_positive.
C30_ThresholdsOrdered ==
    (fn = "analyze_symbol" /\ locals.called) =>
        /\ locals.thresholds.extreme_negative < locals.thresholds.high_negative
        /\ locals.thresholds.high_negative < 0
        /\ 0 < locals.thresholds.high_positive
        /\ locals.thresholds.high_positive < locals.thresholds.extreme_positive

====
